---- MODULE Spec2Model ----
(***************************************************************************)
(* A model of SoftWhisper's speaker diarization:                           *)
(*   speaker_tagger.py   merge_segments, get_embeddings, get_gender,       *)
(*                       SpeakerTagger.process_audio                        *)
(*   diarization_gui.py  srt_time_to_seconds, parse_srt, merge_diarization  *)
(*                                                                         *)
(* Times are integers in milliseconds (the code's floats in seconds times  *)
(* 1000).  A Python tuple is a TLA+ sequence, so the code's seg[i] is      *)
(* seg[i+1] here.  A label is the sequence of its characters.              *)
(***************************************************************************)
EXTENDS Integers, Sequences, FiniteSets, TLC

VARIABLES
    pc,                 \* position of the running call
    \* inputs
    raw,                \* what the segmenter call does: [exc, segs]
    gap_threshold,      \* merge_segments' gap_threshold argument
    srt_content,        \* merge_diarization's srt_content, a list of lines
    remove_timestamps,  \* merge_diarization's remove_timestamps
    audio,              \* what librosa does in the i-th call of get_embeddings
    n_mfcc,             \* get_embeddings' n_mfcc argument
    \* merge_segments called on its own
    merged1,            \* merge_segments(xs)
    merged2,            \* merge_segments(merge_segments(xs))
    \* locals of process_audio
    segments, valid_segments, genders, embeddings,
    groups,             \* the dict of line 256, in insertion order
    gidx,               \* groups already handled by the loop of line 265
    group_clustered_segments,
    pooled,             \* group_clustered_segments as line 285 found it
    composite_to_new, final_segments,
    calls,              \* the calls process_audio has made, in their order
    \* how a call ended
    failure,            \* the exception that left process_audio
    logged,             \* the cause written by line 306
    \* locals of merge_diarization
    progress,           \* the percentages given to progress_callback
    diarization_segments, srt_entries, merged_entries, merged_text,
    reparsed,           \* parse_srt of the text merge_diarization returned
    \* the SoftWhisper window, SoftWhisper.py
    file_path, model_loaded,
    start_button, stop_button, export_button,   \* the state of each button
    transcription_stop_event,                   \* the event is set
    current_text,       \* 0 for None, n for the output of the n-th run
    transcription_box,  \* what display_transcription showed last, 0 if cleared
    workers,            \* the transcribe_file threads started, in their order
    after_calls,        \* enable_buttons calls that root.after has pending
    \* locals of transcribe_audio, SoftWhisper.py:79-127, in milliseconds
    start_time, end_time,   \* what the two option strings parse to
    audio_length, start_sec, end_sec, target_duration

inputs == <<raw, gap_threshold, srt_content, remove_timestamps, audio, n_mfcc>>
mergeVars == <<merged1, merged2>>
paVars == <<segments, valid_segments, genders, embeddings, groups, gidx,
            group_clustered_segments, pooled, composite_to_new, final_segments, calls>>
endVars == <<failure, logged>>
mdVars == <<progress, diarization_segments, srt_entries, merged_entries, merged_text,
           reparsed>>

guiVars == <<file_path, model_loaded, start_button, stop_button, export_button,
            transcription_stop_event, current_text, transcription_box, workers, after_calls>>
boundVars == <<start_time, end_time, audio_length, start_sec, end_sec, target_duration>>
swVars == <<guiVars, boundVars>>

vars == <<pc, inputs, mergeVars, paVars, endVars, mdVars, swVars>>

----------------------------------------------------------------------------
(* Bounds of the model *)

\* longest input list given to merge_segments on its own
MaxMergeLen == 3
\* times lie on the grid 0, 500, ..., 500 * MaxTick milliseconds
MaxTick == 3

\* merge_segments' default gap_threshold, 0.5 s, in milliseconds
GapThreshold == 500

\* get_embeddings' min_duration, 0.05 s, in milliseconds
MinDuration == 50

\* get_embeddings' default n_mfcc
N_MFCC == 40

\* the samples get_embeddings wants from a segment
MinSamples == 2048

\* min_frames_for_delta
MinFramesForDelta == 7

\* the epsilon 1e-6; the components of a vector are whole multiples of it
Eps == 1

\* stands for a bound that float() rejects (a non-numeric string)
BadBound == -1

Times == {500 * t : t \in 0..MaxTick}

----------------------------------------------------------------------------
(* Labels *)

male == <<"m", "a", "l", "e">>
female == <<"f", "e", "m", "a", "l", "e">>
noEnergy == <<"n", "o", "E", "n", "e", "r", "g", "y">>

----------------------------------------------------------------------------
(* merge_segments, speaker_tagger.py:95-106 *)

\* float(x): defined for every bound but the unconvertible one
FloatOk(x) == x # BadBound

\* The exception, if any, that the test of line 101 and the tuple built at
\* line 102 raise for the pair (last_seg, seg); "none" if they raise none.
MergeStepExc(last_seg, seg) ==
    IF Len(seg) < 1 \/ Len(last_seg) < 1 THEN "IndexError"
    ELSE IF seg[1] # last_seg[1] THEN "none"
    ELSE IF Len(seg) < 2 THEN "IndexError"
    ELSE IF ~FloatOk(seg[2]) THEN "ValueError"
    ELSE IF Len(last_seg) < 3 THEN "IndexError"
    ELSE IF ~FloatOk(last_seg[3]) THEN "ValueError"
    ELSE "none"

\* MergeTest with seg[2] read where line 101 reads seg[1]
MergeTestEndSlip(last_seg, seg, th) ==
    /\ seg[1] = last_seg[1]
    /\ (seg[3] - last_seg[3]) <= th

\* MergeTest with a gap equal to the threshold not absorbed
MergeTestStrict(last_seg, seg, th) ==
    seg[1] = last_seg[1] /\ (seg[2] - last_seg[3]) < th

\* MergeTest without the gap test: every same-label neighbour is absorbed
MergeTestNoGap(last_seg, seg, th) ==
    seg[1] = last_seg[1]

\* line 101: same label and start within gap_threshold of the current end
MergeTest(last_seg, seg, th) ==
    /\ seg[1] = last_seg[1]
    /\ (seg[2] - last_seg[3]) <= th

\* MergeTuple with the extra fields of seg kept
MergeTupleOfSeg(last_seg, seg) ==
    <<last_seg[1], last_seg[2], seg[3]>> \o SubSeq(seg, 4, Len(seg))

\* line 102: label, start and the extra fields of last_seg, the end of seg
MergeTuple(last_seg, seg) ==
    <<last_seg[1], last_seg[2], seg[3]>> \o SubSeq(last_seg, 4, Len(last_seg))

RECURSIVE MergeLoopNoElse(_, _, _)
\* MergeLoop with line 105 run on both branches (the else lost)
MergeLoopNoElse(merged, rest, th) ==
    IF rest = <<>> THEN [exc |-> "none", val |-> merged]
    ELSE LET seg == Head(rest)
             last_seg == merged[Len(merged)]
             exc == MergeStepExc(last_seg, seg)
         IN  IF exc # "none" THEN [exc |-> exc, val |-> <<>>]
             ELSE IF MergeTest(last_seg, seg, th)
             THEN IF Len(seg) < 3 THEN [exc |-> "IndexError", val |-> <<>>]
                  ELSE MergeLoopNoElse(
                           Append([merged EXCEPT ![Len(merged)] = MergeTuple(last_seg, seg)], seg),
                           Tail(rest), th)
             ELSE MergeLoopNoElse(Append(merged, seg), Tail(rest), th)

RECURSIVE MergeLoop(_, _, _)
\* lines 99-105: the loop over segments[1:], `merged` being the list so far;
\* the result is [exc, val]: the exception raised ("none") and the list
MergeLoop(merged, rest, th) ==
    IF rest = <<>> THEN [exc |-> "none", val |-> merged]
    ELSE LET seg == Head(rest)
             last_seg == merged[Len(merged)]
             exc == MergeStepExc(last_seg, seg)
         IN  IF exc # "none" THEN [exc |-> exc, val |-> <<>>]
             ELSE IF MergeTest(last_seg, seg, th)
             THEN IF Len(seg) < 3 THEN [exc |-> "IndexError", val |-> <<>>]
                  ELSE MergeLoop([merged EXCEPT ![Len(merged)] = MergeTuple(last_seg, seg)],
                                 Tail(rest), th)
             ELSE MergeLoop(Append(merged, seg), Tail(rest), th)

merge_segments(segs, th) ==
    IF segs = <<>> THEN [exc |-> "none", val |-> segs]
    ELSE MergeLoop(<<segs[1]>>, Tail(segs), th)

----------------------------------------------------------------------------
(* get_gender, speaker_tagger.py:212-219 *)

\* str.lower() on the letters the labels use
LowerChar(c) ==
    CASE c = "M" -> "m" [] c = "A" -> "a" [] c = "L" -> "l" [] c = "E" -> "e"
      [] c = "F" -> "f" [] c = "N" -> "n" [] c = "O" -> "o" [] OTHER -> c
Lower(str) == [i \in 1..Len(str) |-> LowerChar(str[i])]

\* str.startswith
StartsWith(str, prefix) ==
    /\ Len(str) >= Len(prefix)
    /\ SubSeq(str, 1, Len(prefix)) = prefix

\* get_gender without the call of lower()
get_genderNoLower(orig_label) ==
    IF StartsWith(orig_label, male) THEN "male"
    ELSE IF StartsWith(orig_label, female) THEN "female"
    ELSE "unknown"

get_gender(orig_label) ==
    LET l == Lower(orig_label)
    IN  IF StartsWith(l, male) THEN "male"
        ELSE IF StartsWith(l, female) THEN "female"
        ELSE "unknown"

----------------------------------------------------------------------------
(* get_embeddings, speaker_tagger.py:109-208.  A vector is the list of its *)
(* runs of equal components, [n |-> how many, v |-> the component]; what   *)
(* get_embeddings returns is vec / sqrt(den2).                             *)

\* np.zeros(n)
Zeros(n) == IF n > 0 THEN <<[n |-> n, v |-> 0]>> ELSE <<>>

\* vec + c
AddScalar(vec, c) == [i \in DOMAIN vec |-> [vec[i] EXCEPT !.v = @ + c]]

\* a vector of n components x: one statistic of the n coefficients
Stat(n, x) == IF n > 0 THEN <<[n |-> n, v |-> x]>> ELSE <<>>

RECURSIVE Dim(_)
\* embedding.shape[0]
Dim(vec) == IF vec = <<>> THEN 0 ELSE Head(vec).n + Dim(Tail(vec))

RECURSIVE SumSq(_)
\* np.linalg.norm(vec) squared
SumSq(vec) == IF vec = <<>> THEN 0 ELSE Head(vec).n * Head(vec).v * Head(vec).v + SumSq(Tail(vec))

\* lines 138-139, 149-150 and 205-206: np.zeros(embedding_dim) + 1e-6 over
\* its norm
Placeholder(embedding_dim, path, decoded) ==
    LET embedding == AddScalar(Zeros(embedding_dim), Eps)
    IN  [exc |-> "none", vec |-> embedding, den2 |-> SumSq(embedding),
         path |-> path, decoded |-> decoded]

\* StaticEmbedding with the padding of lines 168-169 left out
StaticEmbeddingNoPad(out, n, embedding_dim) ==
    Stat(n, out.stats[1]) \o Stat(n, out.stats[2])

\* lines 163-169: the static mean and std, padded with zeros
StaticEmbedding(out, n, embedding_dim) ==
    Stat(n, out.stats[1]) \o Stat(n, out.stats[2]) \o Zeros(embedding_dim - (n * 2))

\* lines 173-191: mean and std of the static, delta and delta-delta features
FullEmbedding(out, n) ==
    Stat(n, out.stats[1]) \o Stat(n, out.stats[2]) \o Stat(n, out.stats[3])
    \o Stat(n, out.stats[4]) \o Stat(n, out.stats[5]) \o Stat(n, out.stats[6])

\* lines 196-200: the division by the norm, epsilon standing in for a norm
\* of zero
Normalize(embedding, path) ==
    LET norm2 == SumSq(embedding)
    IN  [exc |-> "none", vec |-> embedding,
         den2 |-> IF norm2 = 0 THEN Eps * Eps ELSE norm2,
         path |-> path, decoded |-> TRUE]

\* an exception raised inside the try block of line 131
Raised(type) == [exc |-> type, vec |-> <<>>, den2 |-> 0, path |-> "raised", decoded |-> TRUE]

\* lines 131-200, the try block: what it returns or leaves `embedding` at,
\* or the exception that leaves it
TryBlock(start, end, out, n, embedding_dim) ==
    IF end - start < MinDuration THEN Placeholder(embedding_dim, "short", FALSE)
    ELSE IF out.load = "raises" THEN Raised("load")
    ELSE IF out.samples < MinSamples THEN Placeholder(embedding_dim, "few_samples", TRUE)
    ELSE IF out.mfcc = "raises" THEN Raised("mfcc")
    ELSE IF out.frames < MinFramesForDelta
         THEN Normalize(StaticEmbedding(out, n, embedding_dim), "static")
    ELSE IF out.delta = "raises" THEN Raised("delta")
    ELSE Normalize(FullEmbedding(out, n), "full")

\* Handler with the exception left to the caller
HandlerReraises(res, embedding_dim) == res

\* lines 202-206: the handler of the try block
Handler(res, embedding_dim) ==
    IF res.exc # "none" THEN Placeholder(embedding_dim, "except", res.decoded) ELSE res

\* get_embeddings; `out` is what the audio file gives for the segment
get_embeddings(start, end, out, n) ==
    LET embedding_dim == n * 3 * 2
    IN  Handler(TryBlock(start, end, out, n, embedding_dim), embedding_dim)

----------------------------------------------------------------------------
(* SpeakerTagger.process_audio, speaker_tagger.py:226-307 *)

\* lines 240-247: the segment has three fields and float() takes its bounds
Usable(seg) == Len(seg) >= 3 /\ FloatOk(seg[2]) /\ FloatOk(seg[3])

\* lines 239-251: the segments kept by the loop, in order
ValidSegments(segs) == SelectSeq(segs, Usable)

RECURSIVE GroupLoop(_, _, _, _)
\* lines 256-260: groups.setdefault(gender, ...) and the two appends, for the
\* items from position i on; a new gender is inserted after the others
GroupLoop(gs, embs, segs, i) ==
    IF i > Len(segs) \/ i > Len(embs) THEN gs
    ELSE LET gender == get_gender(segs[i][1])
             known == \E k \in 1..Len(gs) : gs[k].gender = gender
             gs1 == IF known THEN gs
                    ELSE Append(gs, [gender |-> gender, embeddings |-> <<>>, segments |-> <<>>])
             k == CHOOSE k \in 1..Len(gs1) : gs1[k].gender = gender
             gs2 == [gs1 EXCEPT ![k].embeddings = Append(@, embs[i]),
                                ![k].segments = Append(@, segs[i])]
         IN  GroupLoop(gs2, embs, segs, i + 1)

Range(f) == {f[x] : x \in DOMAIN f}

\* AgglomerativeClustering.fit_predict on n >= 2 samples: the labels are
\* 0..k-1 for the k clusters found, each label used; which samples share a
\* cluster depends on the audio
Labelings(n) ==
    {f \in [1..n -> 0..(n - 1)] : \E k \in 1..n : Range(f) = 0..(k - 1)}

\* line 274: one of the vectors given to fit_predict is all zeros
HasZeroVector(embs) == \E i \in 1..Len(embs) : SumSq(embs[i].vec) = 0

\* fit_predict needs two samples at least (sklearn's check of its input
\* raises ValueError on one)
FitPredictRaises(n) == n < 2

\* lines 277-281: seg + (gender, clabel) for the segments of one group
WithComposite(data, group_labels) ==
    [i \in 1..Len(data.segments) |-> data.segments[i] \o <<data.gender, group_labels[i]>>]

RECURSIVE InsertByStart(_, _)
\* a stable insertion: seg goes after every element whose start is <= its own
InsertByStart(sorted, seg) ==
    IF sorted = <<>> THEN <<seg>>
    ELSE IF Head(sorted)[2] <= seg[2]
         THEN <<Head(sorted)>> \o InsertByStart(Tail(sorted), seg)
         ELSE <<seg>> \o sorted

\* SortByStart with the sort of line 285 left out
SortByStartNone(segs) == segs

RECURSIVE SortByStart(_)
\* line 285: list.sort(key=lambda s: float(s[1])), which is stable
SortByStart(segs) ==
    IF segs = <<>> THEN <<>>
    ELSE InsertByStart(SortByStart(SubSeq(segs, 1, Len(segs) - 1)), segs[Len(segs)])

\* Comp with one category for every key
CompNoCategory(seg) == <<"unknown", seg[Len(seg)]>>

\* Comp with the cluster label alone as the key
CompClusterOnly(seg) == <<seg[Len(seg)]>>

\* line 292: comp = (seg[-2], seg[-1])
Comp(seg) == <<seg[Len(seg) - 1], seg[Len(seg)]>>

\* NewSeg with seg[2] and seg[1] as the first two fields
NewSegEndFirst(seg, number) == <<seg[3], seg[2], number + 1, seg[Len(seg) - 1], seg[1]>>

\* line 299: (start, end, new speaker number, gender, orig_label)
NewSeg(seg, number) == <<seg[2], seg[3], number + 1, seg[Len(seg) - 1], seg[1]>>

RECURSIVE RelabelLoopEveryStep(_, _, _, _, _)
\* RelabelLoop with the counter advanced at every segment (line 295 out of
\* the if)
RelabelLoopEveryStep(segs, i, c2n, next_speaker_number, acc) ==
    IF i > Len(segs) THEN [composite_to_new |-> c2n, final_segments |-> acc]
    ELSE LET seg == segs[i]
             comp == Comp(seg)
             fresh == comp \notin DOMAIN c2n
             c2n1 == IF fresh THEN c2n @@ (comp :> next_speaker_number) ELSE c2n
         IN  RelabelLoopEveryStep(segs, i + 1, c2n1, next_speaker_number + 1,
                                  Append(acc, NewSeg(seg, c2n1[comp])))

RECURSIVE RelabelLoop(_, _, _, _, _)
\* lines 290-300 for the segments from position i on, with the dict, the
\* counter and the list as they stand; the result is the dict and the list
RelabelLoop(segs, i, c2n, next_speaker_number, acc) ==
    IF i > Len(segs) THEN [composite_to_new |-> c2n, final_segments |-> acc]
    ELSE LET seg == segs[i]
             comp == Comp(seg)
             fresh == comp \notin DOMAIN c2n
             c2n1 == IF fresh THEN c2n @@ (comp :> next_speaker_number) ELSE c2n
             next1 == IF fresh THEN next_speaker_number + 1 ELSE next_speaker_number
         IN  RelabelLoop(segs, i + 1, c2n1, next1, Append(acc, NewSeg(seg, c2n1[comp])))

\* lines 287-300
Relabel(sorted) == RelabelLoop(sorted, 1, <<>>, 0, <<>>)

----------------------------------------------------------------------------
(* The transcript text.  A text is the list of its lines and a line the    *)
(* list of its tokens:                                                     *)
(*   <<"ws">>              a run of blanks                                  *)
(*   <<"ts", h, m, s, ms>> "hh:mm:ss,mmm", two, two, two and three digits   *)
(*   <<"arrow">>           "-->"                                            *)
(*   <<"word", n>>         any other run of non-blank characters            *)
(*   <<"speaker", n>>      "[Speaker n]:", and <<"speaker_unknown">>        *)
(*   <<"cr">>              a carriage return, "\r"                          *)
(* The lines of the list are what "\n" separates; str.splitlines() breaks  *)
(* a line at "\r" too, and takes "\r\n" as one line end.                   *)

Ws == <<"ws">>
Cr == <<"cr">>
\* what str.strip() removes and \s matches
IsSpace(tok) == tok = Ws \/ tok = Cr
Arrow == <<"arrow">>
IsTs(tok) == tok[1] = "ts"

\* str.strip() on one line
RECURSIVE LStrip(_)
LStrip(line) == IF line # <<>> /\ IsSpace(Head(line)) THEN LStrip(Tail(line)) ELSE line
RECURSIVE RStrip(_)
RStrip(line) ==
    IF line # <<>> /\ IsSpace(line[Len(line)]) THEN RStrip(SubSeq(line, 1, Len(line) - 1)) ELSE line
Strip(line) == RStrip(LStrip(line))

\* the line is empty or holds blanks only
IsBlank(line) == \A i \in 1..Len(line) : IsSpace(line[i])

\* srt_time_to_seconds, diarization_gui.py:43-54
srt_time_to_seconds(ts) == ts[2] * 3600000 + ts[3] * 60000 + ts[4] * 1000 + ts[5]

\* re.match of line 77 on the stripped line: a time, "-->" with any blanks
\* around it, a time; what follows the second time is not looked at
TsMatch(line) ==
    LET afterStart == IF Len(line) >= 2 /\ line[2] = Ws THEN 3 ELSE 2
        afterArrow == IF Len(line) >= afterStart + 1 /\ line[afterStart + 1] = Ws
                      THEN afterStart + 2 ELSE afterStart + 1
    IN  IF /\ Len(line) >= afterArrow
           /\ IsTs(line[1])
           /\ line[afterStart] = Arrow
           /\ IsTs(line[afterArrow])
        THEN [ok |-> TRUE, start_str |-> line[1], end_str |-> line[afterArrow]]
        ELSE [ok |-> FALSE, start_str |-> <<>>, end_str |-> <<>>]

RECURSIVE DropBlankHead(_)
DropBlankHead(lines) ==
    IF lines # <<>> /\ IsBlank(Head(lines)) THEN DropBlankHead(Tail(lines)) ELSE lines
RECURSIVE DropBlankEnd(_)
DropBlankEnd(lines) ==
    IF lines # <<>> /\ IsBlank(lines[Len(lines)])
    THEN DropBlankEnd(SubSeq(lines, 1, Len(lines) - 1)) ELSE lines

\* "\n".join(lines).strip(): the blank lines at both ends go, and the
\* blanks before and after what is left; the empty string is one empty line
JoinStrip(lines) ==
    LET kept == DropBlankEnd(DropBlankHead(lines))
    IN  IF kept = <<>> THEN << <<>> >>
        ELSE [i \in 1..Len(kept) |->
                 LET l1 == IF i = 1 THEN LStrip(kept[i]) ELSE kept[i]
                 IN  IF i = Len(kept) THEN RStrip(l1) ELSE l1]

RECURSIVE SplitAtCr(_, _)
\* what str.splitlines() makes of one line of a block: the line is broken
\* at every "\r", a "\r" at its end being part of the line end; `cur` is
\* the piece being read
SplitAtCr(line, cur) ==
    IF line = <<>> THEN <<cur>>
    ELSE IF Head(line) = Cr
         THEN (IF Tail(line) = <<>> THEN <<cur>>
               ELSE <<cur>> \o SplitAtCr(Tail(line), <<>>))
         ELSE SplitAtCr(Tail(line), Append(cur, Head(line)))

RECURSIVE splitlines(_)
\* line 71: block.splitlines()
splitlines(block) ==
    IF block = <<>> THEN <<>>
    ELSE SplitAtCr(Head(block), <<>>) \o splitlines(Tail(block))

RECURSIVE SplitBlocks(_, _)
\* line 69: re.split(r'\n\s*\n', srt_content.strip()): the runs of lines
\* between blank lines; `cur` is the block being read
SplitBlocks(lines, cur) ==
    IF lines = <<>> THEN (IF cur = <<>> THEN <<>> ELSE <<cur>>)
    ELSE IF IsBlank(Head(lines))
         THEN (IF cur = <<>> THEN <<>> ELSE <<cur>>) \o SplitBlocks(Tail(lines), <<>>)
         ELSE SplitBlocks(Tail(lines), Append(cur, Head(lines)))

\* lines 69-71: the blocks, each the list of its lines; a text with no
\* non-blank line gives the single block of no lines
Blocks(content) ==
    LET bs == SplitBlocks(JoinStrip(content), <<>>)
    IN  IF bs = <<>> THEN << <<>> >> ELSE bs

\* lines 72-89 for one block: the entry it yields, if any
ParseBlock(block) ==
    LET lines == splitlines(block)
    IN
    IF Len(lines) >= 3
    THEN LET match == TsMatch(Strip(lines[2]))
         IN  IF match.ok
             THEN << [index |-> Strip(lines[1]),
                      start_str |-> match.start_str,
                      end_str |-> match.end_str,
                      start |-> srt_time_to_seconds(match.start_str),
                      end |-> srt_time_to_seconds(match.end_str),
                      text |-> JoinStrip(SubSeq(lines, 3, Len(lines)))] >>
             ELSE <<>>
    ELSE <<>>

RECURSIVE ParseLoopStop(_, _)
\* ParseLoop leaving the loop at the first block that yields no entry
ParseLoopStop(blocks, entries) ==
    IF blocks = <<>> THEN entries
    ELSE IF ParseBlock(Head(blocks)) = <<>> THEN entries
    ELSE ParseLoopStop(Tail(blocks), entries \o ParseBlock(Head(blocks)))

RECURSIVE ParseLoop(_, _)
\* lines 70-89: the loop over the blocks
ParseLoop(blocks, entries) ==
    IF blocks = <<>> THEN entries
    ELSE ParseLoop(Tail(blocks), entries \o ParseBlock(Head(blocks)))

\* parse_srt, diarization_gui.py:57-90
parse_srt(content) == ParseLoop(Blocks(content), <<>>)

----------------------------------------------------------------------------
(* merge_diarization, diarization_gui.py:93-166 *)

UnknownLabel == << <<"speaker_unknown">>, Ws >>
SpeakerLabel(n) == << <<"speaker", n>>, Ws >>

\* SegMatches with the end of the segment included
SegMatchesClosed(seg, entry) == seg[1] <= entry.start /\ entry.start <= seg[2]

\* line 135
SegMatches(seg, entry) == seg[1] <= entry.start /\ entry.start < seg[2]

RECURSIVE LabelLoop(_, _)
\* lines 130-137: the label of the first segment that matches, the scan
\* stopping there
LabelLoop(segs, entry) ==
    IF segs = <<>> THEN UnknownLabel
    ELSE IF SegMatches(Head(segs), entry) THEN SpeakerLabel(Head(segs)[3])
    ELSE LabelLoop(Tail(segs), entry)

\* line 138: the label goes in front of the text
Prepend(label, text) == [text EXCEPT ![1] = label \o @]

\* lines 138-145 for one entry
MergedEntry(segs, entry, remove) ==
    [index |-> entry.index,
     timestamp |-> IF remove THEN <<>>
                   ELSE <<entry.start_str, Ws, Arrow, Ws, entry.end_str>>,
     text |-> Prepend(LabelLoop(segs, entry), entry.text)]

\* EntryLines with the index and timestamp lines always kept
EntryLinesKeepAll(entry, remove) ==
    <<entry.index>> \o (IF entry.timestamp # <<>> THEN <<entry.timestamp>> ELSE <<>>)
    \o entry.text \o << <<>> >>

\* EntryLines with no empty line after the text
EntryLinesNoBlank(entry, remove) ==
    (IF remove THEN <<>>
     ELSE <<entry.index>> \o (IF entry.timestamp # <<>> THEN <<entry.timestamp>> ELSE <<>>))
    \o entry.text

\* lines 153-159 for one entry: the lines it adds to srt_lines
EntryLines(entry, remove) ==
    (IF remove THEN <<>>
     ELSE <<entry.index>> \o (IF entry.timestamp # <<>> THEN <<entry.timestamp>> ELSE <<>>))
    \o entry.text \o << <<>> >>

RECURSIVE BuildLoop(_, _)
\* lines 151-161: the text made of the lines of every entry
BuildLoop(entries, remove) ==
    IF entries = <<>> THEN <<>>
    ELSE EntryLines(Head(entries), remove) \o BuildLoop(Tail(entries), remove)

----------------------------------------------------------------------------
(* How a call ends *)

\* an exception's cause: where it was raised and its type
NoCause == [where |-> "none", type |-> "none"]
Cause(w, t) == [where |-> w, type |-> t]

\* no exception left the call
NoFailure == [type |-> "none", code |-> 0, context |-> NoCause]

----------------------------------------------------------------------------
(* The steps of merge_diarization and of the process_audio call it makes *)

\* Exit with the handler returning to the caller instead of exiting
ExitSwallowed(cause) ==
    /\ pc' = "md_diarized"
    /\ logged' = cause
    /\ failure' = [type |-> "none", code |-> 0, context |-> cause]

\* lines 305-307: the handler logs the exception and calls sys.exit(1); the
\* SystemExit is raised while `cause` is being handled, so Python chains it
\* as its __context__, and it leaves merge_diarization, which has no handler
Exit(cause) ==
    /\ pc' = "exited"
    /\ logged' = cause
    /\ failure' = [type |-> "SystemExit", code |-> 1, context |-> cause]

\* diarization_gui.py:112-118, up to the call of process_audio
MD_Start ==
    /\ pc = "md_start"
    /\ progress' = Append(progress, 0)
    /\ pc' = "pa_segment"
    /\ UNCHANGED <<inputs, swVars, mergeVars, paVars, endVars,
                   diarization_segments, srt_entries, merged_entries, merged_text, reparsed>>

\* speaker_tagger.py:229-233: the segmenter, then merge_segments
PA_Segment ==
    /\ pc = "pa_segment"
    /\ LET res == merge_segments(raw.segs, gap_threshold)
       IN  IF raw.exc # "none"
           THEN Exit(Cause("segmenter", raw.exc)) /\ UNCHANGED segments
           ELSE IF res.exc # "none"
           THEN Exit(Cause("merge_segments", res.exc)) /\ UNCHANGED segments
           ELSE /\ segments' = res.val
                /\ pc' = "pa_embed"
                /\ UNCHANGED endVars
    /\ UNCHANGED <<inputs, swVars, mergeVars, valid_segments, genders, embeddings, groups, gidx,
                   group_clustered_segments, pooled, composite_to_new, final_segments, calls,
                   mdVars>>

\* the calls of get_embeddings for the first n usable segments
EmbedCalls(n) == [i \in 1..n |-> <<"get_embeddings", i>>]

\* PA_Embed with the last usable segment left without its embedding
PA_EmbedAllButLast ==
    /\ pc = "pa_embed"
    /\ LET valid == ValidSegments(segments)
           m == IF Len(valid) > 0 THEN Len(valid) - 1 ELSE 0
       IN  /\ valid_segments' = valid
           /\ embeddings' = [i \in 1..m |->
                                get_embeddings(valid[i][2], valid[i][3], audio[i], N_MFCC)]
           /\ genders' = [i \in 1..Len(valid) |-> get_gender(valid[i][1])]
           /\ calls' = calls \o EmbedCalls(m)
    /\ pc' = "pa_group"
    /\ UNCHANGED <<inputs, swVars, mergeVars, segments, groups, gidx, group_clustered_segments,
                   pooled, composite_to_new, final_segments, endVars, mdVars>>

\* speaker_tagger.py:236-253: one embedding and one gender per usable
\* segment; an exception that left get_embeddings would end the loop
PA_Embed ==
    /\ pc = "pa_embed"
    /\ LET valid == ValidSegments(segments)
           embs == [i \in 1..Len(valid) |->
                       get_embeddings(valid[i][2], valid[i][3], audio[i], N_MFCC)]
           raising == {i \in 1..Len(valid) : embs[i].exc # "none"}
       IN  IF raising # {}
           THEN LET first == CHOOSE i \in raising : \A j \in raising : i <= j
                IN  /\ Exit(Cause("get_embeddings", embs[first].exc))
                    /\ calls' = calls \o EmbedCalls(first)
                    /\ UNCHANGED <<valid_segments, embeddings, genders>>
           ELSE /\ valid_segments' = valid
                /\ embeddings' = embs
                /\ genders' = [i \in 1..Len(valid) |-> get_gender(valid[i][1])]
                /\ calls' = calls \o EmbedCalls(Len(valid))
                /\ pc' = "pa_group"
                /\ UNCHANGED endVars
    /\ UNCHANGED <<inputs, swVars, mergeVars, segments, groups, gidx, group_clustered_segments,
                   pooled, composite_to_new, final_segments, mdVars>>

\* speaker_tagger.py:256-260
PA_Group ==
    /\ pc = "pa_group"
    /\ groups' = GroupLoop(<<>>, embeddings, valid_segments, 1)
    /\ pc' = "pa_cluster"
    /\ UNCHANGED <<inputs, swVars, mergeVars, segments, valid_segments, genders, embeddings, gidx,
                   group_clustered_segments, pooled, composite_to_new, final_segments, calls,
                   endVars, mdVars>>

\* speaker_tagger.py:265-281, one round of the loop over the groups.
\* fit_predict gets the cosine distances of the group's vectors; with a
\* vector of zeros among them these are not numbers, and it may raise
PA_Cluster ==
    /\ pc = "pa_cluster"
    /\ gidx < Len(groups)
    /\ LET data == groups[gidx + 1]
           n == Len(data.embeddings)
           called == Append(calls, <<"fit_predict", data.gender>>)
       IN  IF n = 0
           THEN /\ gidx' = gidx + 1
                /\ UNCHANGED <<pc, group_clustered_segments, calls, endVars>>
           ELSE IF FitPredictRaises(n)
           THEN /\ Exit(Cause("fit_predict", "ValueError"))
                /\ calls' = called
                /\ UNCHANGED <<gidx, group_clustered_segments>>
           ELSE \/ \E group_labels \in Labelings(n) :
                    /\ group_clustered_segments' =
                           group_clustered_segments \o WithComposite(data, group_labels)
                    /\ gidx' = gidx + 1
                    /\ calls' = called
                    /\ UNCHANGED <<pc, endVars>>
                \/ /\ HasZeroVector(data.embeddings)
                   /\ Exit(Cause("fit_predict", "ValueError"))
                   /\ calls' = called
                   /\ UNCHANGED <<gidx, group_clustered_segments>>
    /\ UNCHANGED <<inputs, swVars, mergeVars, segments, valid_segments, genders, embeddings, groups,
                   pooled, composite_to_new, final_segments, mdVars>>

\* speaker_tagger.py:283-303, and the return into diarization_gui.py:118
PA_Relabel ==
    /\ pc = "pa_cluster"
    /\ gidx = Len(groups)
    /\ LET sorted == SortByStart(group_clustered_segments)
           res == Relabel(sorted)
       IN  /\ pooled' = group_clustered_segments
           /\ group_clustered_segments' = sorted
           /\ composite_to_new' = res.composite_to_new
           /\ final_segments' = res.final_segments
           /\ diarization_segments' = res.final_segments
    /\ calls' = Append(calls, <<"relabel">>)
    /\ pc' = "md_diarized"
    /\ UNCHANGED <<inputs, swVars, mergeVars, segments, valid_segments, genders, embeddings, groups,
                   gidx, endVars, progress, srt_entries, merged_entries, merged_text, reparsed>>

\* diarization_gui.py:119-120
MD_Progress30 ==
    /\ pc = "md_diarized"
    /\ progress' = Append(progress, 30)
    /\ pc' = "md_parse"
    /\ UNCHANGED <<inputs, swVars, mergeVars, paVars, endVars,
                   diarization_segments, srt_entries, merged_entries, merged_text, reparsed>>

\* diarization_gui.py:123-125
MD_Parse ==
    /\ pc = "md_parse"
    /\ srt_entries' = parse_srt(srt_content)
    /\ progress' = Append(progress, 50)
    /\ pc' = "md_label"
    /\ UNCHANGED <<inputs, swVars, mergeVars, paVars, endVars,
                   diarization_segments, merged_entries, merged_text, reparsed>>

\* MD_Label with the callback called once for every entry
MD_LabelPerEntry ==
    /\ pc = "md_label"
    /\ merged_entries' =
           [k \in 1..Len(srt_entries) |->
               MergedEntry(diarization_segments, srt_entries[k], remove_timestamps)]
    /\ progress' = progress \o [k \in 1..Len(srt_entries) |-> 80]
    /\ pc' = "md_build"
    /\ UNCHANGED <<inputs, swVars, mergeVars, paVars, endVars,
                   diarization_segments, srt_entries, merged_text, reparsed>>

\* diarization_gui.py:128-148
MD_Label ==
    /\ pc = "md_label"
    /\ merged_entries' =
           [k \in 1..Len(srt_entries) |->
               MergedEntry(diarization_segments, srt_entries[k], remove_timestamps)]
    /\ progress' = Append(progress, 80)
    /\ pc' = "md_build"
    /\ UNCHANGED <<inputs, swVars, mergeVars, paVars, endVars,
                   diarization_segments, srt_entries, merged_text, reparsed>>

\* diarization_gui.py:151-166
MD_Build ==
    /\ pc = "md_build"
    /\ merged_text' = BuildLoop(merged_entries, remove_timestamps)
    /\ progress' = Append(progress, 100)
    /\ pc' = "done"
    /\ UNCHANGED <<inputs, swVars, mergeVars, paVars, endVars,
                   diarization_segments, srt_entries, merged_entries, reparsed>>

Next ==
    \/ MD_Start \/ PA_Segment \/ PA_Embed \/ PA_Group \/ PA_Cluster \/ PA_Relabel
    \/ MD_Progress30 \/ MD_Parse \/ MD_Label \/ MD_Build

----------------------------------------------------------------------------
(* merge_segments on its own: the inputs *)

SeqsUpTo(S, n) == UNION {[1..k -> S] : k \in 0..n}

\* well-formed (label, start, end) tuples with start < end
Intervals == {<<s, e>> \in Times \X Times : s < e}
MergeLabels == {male, female}
MergeTuples == {<<l, i[1], i[2]>> : l \in MergeLabels, i \in Intervals}

\* the default threshold, and one below and one above it
Thresholds == {0, GapThreshold, 2 * GapThreshold}

NoResult == [exc |-> "none", val |-> <<>>]
NoMerge == merged1 = NoResult /\ merged2 = NoResult

\* before a call every local is empty
InitLocals ==
    /\ segments = <<>> /\ valid_segments = <<>> /\ genders = <<>>
    /\ embeddings = <<>> /\ groups = <<>> /\ gidx = 0
    /\ group_clustered_segments = <<>> /\ pooled = <<>>
    /\ composite_to_new = <<>> /\ final_segments = <<>> /\ calls = <<>>
    /\ failure = NoFailure /\ logged = NoCause
    /\ progress = <<>> /\ diarization_segments = <<>>
    /\ srt_entries = <<>> /\ merged_entries = <<>> /\ merged_text = <<>>
    /\ reparsed = <<>>

\* SoftWhisper.py:346-360 and 439-443: the window as it is built, no file
\* chosen, no model checked, no run started
WindowBuilt ==
    /\ file_path = FALSE /\ model_loaded = FALSE
    /\ start_button = "disabled" /\ stop_button = "disabled" /\ export_button = "disabled"
    /\ transcription_stop_event = FALSE
    /\ current_text = 0 /\ transcription_box = 0
    /\ workers = <<>> /\ after_calls = 0

\* transcribe_audio is not running
NoBounds ==
    /\ start_time = 0 /\ end_time = 0 /\ audio_length = 0
    /\ start_sec = 0 /\ end_sec = 0 /\ target_duration = 0

NoWindow == WindowBuilt /\ NoBounds

InitMerge ==
    /\ pc = "merge"
    /\ raw \in {[exc |-> "none", segs |-> xs] : xs \in SeqsUpTo(MergeTuples, MaxMergeLen)}
    /\ gap_threshold \in Thresholds
    /\ srt_content = <<>>
    /\ remove_timestamps = FALSE
    /\ audio = <<>> /\ n_mfcc = N_MFCC
    /\ NoMerge /\ InitLocals /\ NoWindow

\* merge_segments(xs)
MergeOnce ==
    /\ pc = "merge"
    /\ merged1' = merge_segments(raw.segs, gap_threshold)
    /\ pc' = "merged"
    /\ UNCHANGED <<inputs, swVars, merged2, paVars, endVars, mdVars>>

\* merge_segments(merge_segments(xs))
MergeAgain ==
    /\ pc = "merged"
    /\ merged1.exc = "none"
    /\ merged2' = merge_segments(merged1.val, gap_threshold)
    /\ pc' = "remerged"
    /\ UNCHANGED <<inputs, swVars, merged1, paVars, endVars, mdVars>>

NextMerge == MergeOnce \/ MergeAgain

SpecMerge == InitMerge /\ [][NextMerge]_vars

----------------------------------------------------------------------------
(* Calls of merge_diarization: the inputs *)

\* longest segmenter output that keeps the segmenter's contract
MaxSegs == 4
\* longest segmenter output with malformed tuples
MaxBadLen == 3
\* longest segmenter output with overlapping intervals
MaxAlignSegs == 4
\* the overlapping intervals start on the grid 0, 500, ..., 500 * MaxAlignTick
MaxAlignTick == 1
\* most blocks of a transcript
MaxBlocks == 3

\* the time "00:00:ss,mmm" of ms milliseconds, for ms below a minute
TsTok(ms) == <<"ts", 0, 0, ms \div 1000, ms % 1000>>
TsLine(start, end) == <<TsTok(start), Ws, Arrow, Ws, TsTok(end)>>
Word(n) == << <<"word", n>> >>

\* a well-formed block: index n, the times, one line of text
GoodBlock(n, start, end) == <<Word(n), TsLine(start, end), Word(100 + n)>>

RECURSIVE JoinBlocks(_)
\* the blocks with an empty line between them
JoinBlocks(blocks) ==
    IF blocks = <<>> THEN <<>>
    ELSE IF Len(blocks) = 1 THEN blocks[1]
    ELSE blocks[1] \o << <<>> >> \o JoinBlocks(Tail(blocks))

\* a transcript with one entry starting at each grid time up to 500 * n
GridTranscript(n) ==
    JoinBlocks([k \in 1..(n + 1) |-> GoodBlock(k, 500 * (k - 1), 500 * (k - 1) + 250)])

SegmenterFails == [exc |-> "RuntimeError", segs |-> <<>>]
Returns(xs) == [exc |-> "none", segs |-> xs]

DiarLabels == {male, female, noEnergy}
\* the next segment starts where the last one ended, or a second later
DiarGaps == {0, 2 * GapThreshold}

RECURSIVE ContractSeqs(_, _)
\* the lists of at most n segments of half a second, from time `from` on,
\* that keep the segmenter's contract (sorted, non-overlapping)
ContractSeqs(n, from) ==
    IF n = 0 THEN {<<>>}
    ELSE {<<>>} \cup
         UNION {LET rests == ContractSeqs(n - 1, from + g + 500)
                IN  {<< <<l, from + g, from + g + 500>> >> \o rest :
                        l \in DiarLabels, rest \in rests} :
                g \in DiarGaps}

\* tuples process_audio cannot use: two fields only, or a bound float() rejects
BadTuples == {<<male, 0>>, <<male, 0, BadBound>>, <<female, BadBound, 500>>}
MalformedSeqs == SeqsUpTo(BadTuples \cup {<<male, 0, 500>>, <<male, 1500, 2000>>}, MaxBadLen)

\* a segment decoded to a second of samples, with features that are not
\* all zero
ClearSpeech ==
    [load |-> "ok", samples |-> 16000, mfcc |-> "ok", frames |-> 32, delta |-> "ok",
     stats |-> <<-3, 2, 0, 1, 0, 1>>]

InitCall(outcomes, transcripts, flags) ==
    /\ pc = "md_start"
    /\ raw \in outcomes
    /\ gap_threshold = GapThreshold
    /\ srt_content \in transcripts
    /\ remove_timestamps \in flags
    /\ audio = [i \in 1..Len(raw.segs) |-> ClearSpeech]
    /\ n_mfcc = N_MFCC
    /\ NoMerge /\ InitLocals /\ NoWindow

\* the segmenter fails, keeps its contract, or returns malformed tuples
InitDiar ==
    InitCall({SegmenterFails} \cup {Returns(xs) : xs \in ContractSeqs(MaxSegs, 0) \cup MalformedSeqs},
             {GridTranscript(3)}, {FALSE})

SpecDiar == InitDiar /\ [][Next]_vars

\* lists whose labels alternate, so that no two neighbours are coalesced,
\* of intervals of one second starting anywhere on the grid: they may
\* overlap, repeat and be out of order
AlignSeqs ==
    UNION {{[i \in 1..n |-> <<IF i % 2 = 1 THEN male ELSE female, 500 * f[i], 500 * f[i] + 1000>>] :
               f \in [1..n -> 0..MaxAlignTick]} : n \in 0..MaxAlignSegs}

InitAlign ==
    InitCall({SegmenterFails} \cup {Returns(xs) : xs \in AlignSeqs},
             {GridTranscript(MaxAlignTick + 2)}, {FALSE})

SpecAlign == InitAlign /\ [][Next]_vars

\* the blocks a transcript is made of, k being the block's position:
\*   "good"   index, times, one line of text
\*   "long"   index, times, two lines of text, with blanks at their ends
\*   "tight"  the times line indented, no blanks around "-->", text after it
\*   "short"  index and times only
\*   "plain"  three lines of words, no times
\*   "dash"   "->" where "-->" should be
\*   "late"   the times on the third line
BlockKinds == {"good", "long", "tight", "short", "plain", "dash", "late"}
BlockOf(kind, k) ==
    CASE kind = "good"  -> GoodBlock(k, 500 * k, 500 * k + 250)
      [] kind = "long"  -> <<Word(k), TsLine(500 * k, 500 * k + 250),
                             << <<"word", 100 + k>>, Ws >>, << Ws, <<"word", 200 + k>>, Ws >> >>
      [] kind = "tight" -> << <<Ws, <<"word", k>>>>,
                              <<Ws, TsTok(500 * k), Arrow, TsTok(500 * k + 250), <<"word", 300 + k>>>>,
                              Word(100 + k) >>
      [] kind = "short" -> <<Word(k), TsLine(500 * k, 500 * k + 250)>>
      [] kind = "plain" -> <<Word(k), Word(100 + k), Word(200 + k)>>
      [] kind = "dash"  -> <<Word(k), <<TsTok(500 * k), Ws, <<"word", 400>>, Ws, TsTok(500 * k + 250)>>,
                             Word(100 + k)>>
      [] kind = "late"  -> <<Word(k), Word(100 + k), TsLine(500 * k, 500 * k + 250)>>

RECURSIVE JoinLoose(_)
\* the blocks between lines of blanks, with such lines before and after
JoinLoose(blocks) ==
    IF blocks = <<>> THEN << <<Ws>> >>
    ELSE << <<Ws>>, <<>> >> \o blocks[1] \o JoinLoose(Tail(blocks))

\* the transcripts of at most MaxBlocks blocks, tightly or loosely spaced
Transcripts ==
    UNION {{JoinBlocks([k \in 1..Len(kinds) |-> BlockOf(kinds[k], k)]),
            JoinLoose([k \in 1..Len(kinds) |-> BlockOf(kinds[k], k)])} :
           kinds \in SeqsUpTo(BlockKinds, MaxBlocks)}

InitSrt ==
    InitCall({SegmenterFails, Returns(<< <<male, 0, 1000>>, <<male, 2000, 3000>> >>)},
             Transcripts, BOOLEAN)

SpecSrt == InitSrt /\ [][Next]_vars

----------------------------------------------------------------------------
(* get_embeddings on its own, and calls with audio of every kind: the inputs *)

\* most segments of a call whose audio varies
MaxAudioSegs == 3

\* mfcc's frames for a number of samples: one for every 512, and one
Frames(samples) == 1 + samples \div 512

\* the statistics: all zero; mixed; the static ones zero; one component only
StatChoices == {<<0, 0, 0, 0, 0, 0>>, <<-3, 2, 0, 1, 0, 1>>, <<0, 0, 1, 1, 0, 0>>, <<5, 0, 0, 0, 0, 0>>}

\* what librosa may do for one segment
AudioOutcomes ==
    {[load |-> l, samples |-> n, mfcc |-> m, frames |-> Frames(n), delta |-> d, stats |-> st] :
        l \in {"ok", "raises"}, n \in {0, 2047, 2048, 3071, 3072, 16000},
        m \in {"ok", "raises"}, d \in {"ok", "raises"}, st \in StatChoices}

Durations == {20, 49, 50, 1000}
MfccCounts == {1, 13, N_MFCC}

InitEmb ==
    /\ pc = "embed"
    /\ raw \in {Returns(<< <<male, 0, d>> >>) : d \in Durations}
    /\ gap_threshold = GapThreshold
    /\ srt_content = <<>>
    /\ remove_timestamps = FALSE
    /\ audio \in {<<o>> : o \in AudioOutcomes}
    /\ n_mfcc \in MfccCounts
    /\ NoMerge /\ InitLocals /\ NoWindow

\* get_embeddings(audio_path, start, end, orig_label, n_mfcc)
EmbedOnce ==
    /\ pc = "embed"
    /\ LET res == get_embeddings(raw.segs[1][2], raw.segs[1][3], audio[1], n_mfcc)
       IN  /\ embeddings' = <<res>>
           /\ failure' = IF res.exc # "none"
                         THEN [type |-> res.exc, code |-> 0, context |-> NoCause]
                         ELSE failure
    /\ calls' = EmbedCalls(1)
    /\ pc' = "embedded"
    /\ UNCHANGED <<inputs, swVars, mergeVars, segments, valid_segments, genders, groups, gidx,
                   group_clustered_segments, pooled, composite_to_new, final_segments,
                   logged, mdVars>>

NextEmb == EmbedOnce

SpecEmb == InitEmb /\ [][NextEmb]_vars

\* the first segment lasts 20 ms, the others 400 ms, all male and too far
\* apart to be merged
AudioSegs(n) ==
    [i \in 1..n |-> <<male, 1000 * (i - 1), 1000 * (i - 1) + (IF i = 1 THEN 20 ELSE 400)>>]

\* the load fails; the features cannot be computed; too few samples; too
\* few frames; clear speech; features that are all zero
CallOutcomes ==
    {[ClearSpeech EXCEPT !.load = "raises"],
     [ClearSpeech EXCEPT !.mfcc = "raises"],
     [ClearSpeech EXCEPT !.samples = 2047, !.frames = Frames(2047)],
     [ClearSpeech EXCEPT !.samples = 2048, !.frames = Frames(2048)],
     ClearSpeech,
     [ClearSpeech EXCEPT !.stats = <<0, 0, 0, 0, 0, 0>>]}

InitAudio ==
    /\ pc = "md_start"
    /\ raw \in {Returns(AudioSegs(n)) : n \in 0..MaxAudioSegs}
    /\ gap_threshold = GapThreshold
    /\ srt_content = GridTranscript(2)
    /\ remove_timestamps = FALSE
    /\ audio \in [1..Len(raw.segs) -> CallOutcomes]
    /\ n_mfcc = N_MFCC
    /\ NoMerge /\ InitLocals /\ NoWindow

SpecAudio == InitAudio /\ [][Next]_vars

----------------------------------------------------------------------------
(* Properties of merge_segments *)

\* C4: merge_segments is idempotent: merging the merged list again, with the
\* same threshold, gives the merged list back.
C4_MergeIdempotent ==
    pc = "remerged" => merged2 = merged1

\* a run where the first pass did coalesce and still left two intervals
C4_Witness ==
    /\ pc = "remerged"
    /\ Len(raw.segs) = 3
    /\ Len(merged1.val) = 2
    /\ merged1.val[1][1] = merged1.val[2][1]

\* the input contract: sorted ascending by start, end_i <= start_{i+1}
SortedByStart(xs) == \A i \in 1..(Len(xs) - 1) : xs[i][2] <= xs[i + 1][2]
NonOverlapping(xs) == \A i \in 1..(Len(xs) - 1) : xs[i][3] <= xs[i + 1][2]
Contract(xs) == SortedByStart(xs) /\ NonOverlapping(xs)

\* C5: for a sorted, non-overlapping input the output of merge_segments is
\* again sorted by start with end_i <= start_{i+1}.
C5_MergeKeepsContract ==
    (pc # "merge" /\ Contract(raw.segs)) =>
        /\ merged1.exc = "none"
        /\ SortedByStart(merged1.val)
        /\ NonOverlapping(merged1.val)

\* a contract input of three intervals of which two were coalesced
C5_Witness ==
    /\ pc = "merged"
    /\ Contract(raw.segs)
    /\ Len(raw.segs) = 3
    /\ Len(merged1.val) = 2

\* the output intervals of the same label that contain input interval x
Holders(x, out) ==
    {j \in 1..Len(out) : out[j][1] = x[1] /\ out[j][2] <= x[2] /\ x[3] <= out[j][3]}

\* the grid cells [500k, 500(k+1)) covered by the intervals of xs
Cells(xs) ==
    {k \in 0..(MaxTick - 1) :
        \E i \in 1..Len(xs) : xs[i][2] <= 500 * k /\ 500 * (k + 1) <= xs[i][3]}

\* the cells in gaps of at most th between consecutive same-label inputs
SmallGapCells(xs, th) ==
    {k \in 0..(MaxTick - 1) :
        \E i \in 1..(Len(xs) - 1) :
            /\ xs[i][1] = xs[i + 1][1]
            /\ xs[i + 1][2] - xs[i][3] <= th
            /\ xs[i][3] <= 500 * k /\ 500 * (k + 1) <= xs[i + 1][2]}

\* the first input interval held by output interval j
FirstHeld(xs, out, j) ==
    CHOOSE i \in 1..Len(xs) :
        /\ j \in Holders(xs[i], out)
        /\ \A h \in 1..(i - 1) : j \notin Holders(xs[h], out)

\* C6: for a sorted, non-overlapping input, every input interval lies in
\* exactly one output interval of its label, the output intervals come in the
\* order of their first input interval, and the only coverage added is gaps
\* of at most gap_threshold between consecutive same-label input intervals.
C6_MergeKeepsCoverage ==
    (pc # "merge" /\ Contract(raw.segs)) =>
        LET xs == raw.segs
            out == merged1.val
        IN  /\ \A i \in 1..Len(xs) : Cardinality(Holders(xs[i], out)) = 1
            /\ \A j \in 1..Len(out) : \E i \in 1..Len(xs) : j \in Holders(xs[i], out)
            /\ \A j \in 1..(Len(out) - 1) :
                   FirstHeld(xs, out, j) < FirstHeld(xs, out, j + 1)
            /\ \A j \in 1..Len(out) : out[j][2] = xs[FirstHeld(xs, out, j)][2]
            /\ Cells(xs) \subseteq Cells(out)
            /\ (Cells(out) \ Cells(xs)) \subseteq SmallGapCells(xs, gap_threshold)

\* a contract input where a gap of the size of the default threshold was
\* absorbed into the coverage
C6_Witness ==
    /\ pc = "merged"
    /\ Contract(raw.segs)
    /\ Len(raw.segs) = 2
    /\ Len(merged1.val) = 1
    /\ gap_threshold = GapThreshold
    /\ Cells(merged1.val) # Cells(raw.segs)

----------------------------------------------------------------------------
(* Properties of process_audio *)

\* process_audio has returned its list
Returned == pc \in {"md_diarized", "md_parse", "md_label", "md_build", "done"}

\* the composite key (category, cluster_id) of a clustered segment
KeyOf(seg) == <<seg[Len(seg) - 1], seg[Len(seg)]>>

\* the position at which the key of sorted[i] is first met
FirstPos(sorted, i) ==
    CHOOSE h \in 1..i :
        /\ KeyOf(sorted[h]) = KeyOf(sorted[i])
        /\ \A g \in 1..(h - 1) : KeyOf(sorted[g]) # KeyOf(sorted[i])

\* the elements of xs that start at t, in their order
StartingAt(xs, t) == SelectSeq(xs, LAMBDA x : x[2] = t)

\* C2: the pooled segments are walked in ascending start order, segments
\* with equal starts in their pooled order, and speaker ids are minted from 1
\* in the order in which the composite keys are first met: the earliest
\* segment gets 1, and a key first met earlier gets the smaller id.
C2_MintedInOrder ==
    Returned =>
        LET sorted == group_clustered_segments
            fin == final_segments
            n == Len(sorted)
        IN  /\ Len(fin) = n /\ Len(pooled) = n
            /\ \A i \in 1..(n - 1) : sorted[i][2] <= sorted[i + 1][2]
            /\ \A i \in 1..n : StartingAt(sorted, sorted[i][2]) = StartingAt(pooled, sorted[i][2])
            /\ n > 0 => fin[1][3] = 1
            /\ \A i \in 1..n :
                   fin[i][3] = 1 + Cardinality({KeyOf(sorted[h]) : h \in 1..(FirstPos(sorted, i) - 1)})
            /\ \A i, j \in 1..n :
                   FirstPos(sorted, i) < FirstPos(sorted, j) => fin[i][3] < fin[j][3]

\* a run in which the sort changed the pooled order, two segments start at
\* the same time and three speakers were numbered
C2_Witness ==
    /\ pc = "done"
    /\ pooled # group_clustered_segments
    /\ \E i \in 1..(Len(pooled) - 1) : group_clustered_segments[i][2] = group_clustered_segments[i + 1][2]
    /\ \E i \in 1..Len(final_segments) : final_segments[i][3] = 3

\* C3: within one run two final segments carry the same speaker_id exactly
\* when they carry the same composite key, and composite_to_new gives
\* distinct keys distinct numbers.
C3_RelabelInjective ==
    Returned =>
        LET sorted == group_clustered_segments
            fin == final_segments
        IN  /\ Len(fin) = Len(sorted)
            /\ \A i, j \in 1..Len(fin) :
                   (fin[i][3] = fin[j][3]) <=> (KeyOf(sorted[i]) = KeyOf(sorted[j]))
            /\ \A a, b \in DOMAIN composite_to_new :
                   a # b => composite_to_new[a] # composite_to_new[b]
            /\ \A i \in 1..Len(fin) :
                   /\ KeyOf(sorted[i]) \in DOMAIN composite_to_new
                   /\ fin[i][3] = composite_to_new[KeyOf(sorted[i])] + 1

\* a run with two segments of one key, and two keys of different categories
\* with the same cluster_id
C3_Witness ==
    /\ pc = "done"
    /\ \E i, j \in 1..Len(final_segments) :
           /\ i # j
           /\ KeyOf(group_clustered_segments[i]) = KeyOf(group_clustered_segments[j])
    /\ \E i, j \in 1..Len(final_segments) :
           /\ group_clustered_segments[i][Len(group_clustered_segments[i])]
                  = group_clustered_segments[j][Len(group_clustered_segments[j])]
           /\ final_segments[i][4] # final_segments[j][4]

\* C7: when the segmenter raises, the call is left by SystemExit: no final
\* segment and no text is returned, no progress beyond 0 is reported, and
\* the failure carries the segmenter's exception, which is also logged.
C7_SegmenterFailureAborts ==
    (raw.exc # "none" /\ pc \notin {"md_start", "pa_segment"}) =>
        /\ pc = "exited"
        /\ final_segments = <<>> /\ diarization_segments = <<>>
        /\ merged_entries = <<>> /\ merged_text = <<>>
        /\ progress = <<0>>
        /\ failure.type = "SystemExit" /\ failure.code = 1
        /\ failure.context = [where |-> "segmenter", type |-> raw.exc]
        /\ logged = [where |-> "segmenter", type |-> raw.exc]

C7_Witness ==
    pc = "exited" /\ raw.exc = "RuntimeError"

\* no tuple of the list has three fields and numeric bounds
NoneUsable(xs) ==
    \A i \in 1..Len(xs) : Len(xs[i]) < 3 \/ xs[i][2] = BadBound \/ xs[i][3] = BadBound

\* the call has ended
Ended == pc \in {"done", "exited"}

\* C8: when the segmenter's result holds no usable segment (it is empty, or
\* every tuple has fewer than three fields or a bound that is no number), the
\* request ends in the terminal error and returns no segments and no text.
C8_NoUsableSegmentIsFatal ==
    (raw.exc = "none" /\ NoneUsable(raw.segs) /\ Ended) =>
        /\ pc = "exited"
        /\ failure.type = "SystemExit"
        /\ merged_text = <<>>

\* C9: a category group of exactly one merged segment forms one cluster: the
\* run does not end in the error exit, and once process_audio has returned
\* the segment carries a speaker_id.
C9_SingleSegmentGroupCompletes ==
    \A k \in 1..Len(groups) :
        Len(groups[k].segments) = 1 =>
            /\ pc # "exited"
            /\ Returned =>
                   \E i \in 1..Len(final_segments) :
                       /\ final_segments[i][1] = groups[k].segments[1][2]
                       /\ final_segments[i][2] = groups[k].segments[1][3]
                       /\ final_segments[i][3] >= 1

----------------------------------------------------------------------------
(* Properties of merge_diarization *)

\* the entries have their labels
Labeled == pc \in {"md_build", "done"}

\* the positions of the segments that hold the start of entry k
MatchSet(k) ==
    {i \in 1..Len(diarization_segments) :
        /\ diarization_segments[i][1] <= srt_entries[k].start
        /\ srt_entries[k].start < diarization_segments[i][2]}

Least(S) == CHOOSE x \in S : \A y \in S : x <= y

\* C1: every parsed entry is labeled with the speaker_id of the first
\* segment, in the order process_audio returned them, with
\* segment.start <= entry.start < segment.end, and with Speaker Unknown if
\* there is none; the label goes in front of the entry's text.
C1_FirstMatchLabels ==
    Labeled =>
        /\ diarization_segments = final_segments
        /\ Len(merged_entries) = Len(srt_entries)
        /\ \A k \in 1..Len(srt_entries) :
               LET label == IF MatchSet(k) = {}
                            THEN << <<"speaker_unknown">>, <<"ws">> >>
                            ELSE << <<"speaker", diarization_segments[Least(MatchSet(k))][3]>>, <<"ws">> >>
               IN  /\ merged_entries[k].text[1] = label \o srt_entries[k].text[1]
                   /\ Tail(merged_entries[k].text) = Tail(srt_entries[k].text)

\* a run with an entry that starts in two segments of different speakers,
\* an entry that starts where a segment starts, and an entry that starts
\* where the only segments around it end and is left unlabeled
C1_Witness ==
    /\ pc = "done"
    /\ \E k \in 1..Len(srt_entries) :
           \E i, j \in MatchSet(k) :
               i < j /\ diarization_segments[i][3] # diarization_segments[j][3]
    /\ \E k \in 1..Len(srt_entries) :
           \E i \in MatchSet(k) : diarization_segments[i][1] = srt_entries[k].start
    /\ \E k \in 1..Len(srt_entries) :
           /\ MatchSet(k) = {}
           /\ \E i \in 1..Len(diarization_segments) :
                  diarization_segments[i][2] = srt_entries[k].start

----------------------------------------------------------------------------
(* Properties of parse_srt *)

\* the transcript has been parsed
Parsed == pc \in {"md_label", "md_build", "done"}

\* line i of the transcript opens a block: it is not blank and no non-blank
\* line is right before it
OpensBlock(i) ==
    /\ ~IsBlank(srt_content[i])
    /\ i = 1 \/ IsBlank(srt_content[i - 1])

\* the last line of the block that line i opens
BlockEnd(i) ==
    Least({j \in i..Len(srt_content) : j = Len(srt_content) \/ IsBlank(srt_content[j + 1])})

\* the times of a line, in their order
TimesOf(line) == SelectSeq(line, IsTs)

\* a time, "-->", a time, with or without blanks around the "-->", at the
\* start of the line once the blanks at its ends are dropped
HasTimes(line) ==
    \E a, b \in {<<>>, << <<"ws">> >>} :
        LET want == a \o << <<"arrow">> >> \o b
            l == Strip(line)
        IN  /\ Len(l) >= Len(want) + 2
            /\ l[1][1] = "ts"
            /\ SubSeq(l, 2, Len(want) + 1) = want
            /\ l[Len(want) + 2][1] = "ts"

\* the block that line i opens has three lines or more and the pattern on
\* its second line
Yields(i) ==
    /\ OpensBlock(i)
    /\ BlockEnd(i) - i + 1 >= 3
    /\ HasTimes(srt_content[i + 1])

YieldingBlocks == {i \in 1..Len(srt_content) : Yields(i)}

\* the words of a list of lines
WordsOf(lines) ==
    UNION {{lines[i][j] : j \in 1..Len(lines[i])} : i \in 1..Len(lines)} \ {<<"ws">>, <<"arrow">>}

\* C10: parse_srt yields one entry for each block of three lines or more
\* whose second line matches the pattern, in the order of the blocks and
\* with the block's own index, times and text, and none for any other
\* block; it does not raise, and nothing of a skipped block is in the text
\* merge_diarization returns.
C10_ParseSkipsBadBlocks ==
    /\ pc # "exited" => failure.type = "none"
    /\ Parsed =>
           /\ Len(srt_entries) = Cardinality(YieldingBlocks)
           /\ \A i \in YieldingBlocks :
                  LET e == srt_entries[Cardinality({q \in YieldingBlocks : q <= i})]
                      times == TimesOf(srt_content[i + 1])
                      body == SubSeq(srt_content, i + 2, BlockEnd(i))
                  IN  /\ e.index = Strip(srt_content[i])
                      /\ e.start_str = times[1] /\ e.end_str = times[2]
                      /\ e.start = srt_time_to_seconds(times[1])
                      /\ e.end = srt_time_to_seconds(times[2])
                      /\ Len(e.text) = Len(body)
                      /\ \A t \in 1..Len(body) :
                             e.text[t] = IF t = 1 /\ t = Len(body) THEN Strip(body[t])
                                         ELSE IF t = 1 THEN LStrip(body[t])
                                         ELSE IF t = Len(body) THEN RStrip(body[t])
                                         ELSE body[t]
    /\ Labeled =>
           /\ Len(merged_entries) = Cardinality(YieldingBlocks)
           /\ \A k \in 1..Len(merged_entries) :
                  /\ merged_entries[k].index = srt_entries[k].index
                  /\ Tail(merged_entries[k].text) = Tail(srt_entries[k].text)
    /\ pc = "done" =>
           WordsOf(merged_text) \subseteq
               UNION {WordsOf(SubSeq(srt_content, i, BlockEnd(i))) : i \in YieldingBlocks}
                   \cup {<<"speaker", n>> : n \in 1..2} \cup {<<"speaker_unknown">>}

\* a finished call on a transcript of three blocks, the second of which is
\* skipped, the first and the third giving the two entries
C10_Witness ==
    /\ pc = "done"
    /\ Cardinality({i \in 1..Len(srt_content) : OpensBlock(i)}) = 3
    /\ Len(srt_entries) = 2
    /\ Yields(1) \/ Yields(3)
    /\ \E i \in YieldingBlocks : i > 6
    /\ \E i \in 1..Len(srt_content) :
           OpensBlock(i) /\ ~Yields(i) /\ BlockEnd(i) - i + 1 >= 3

----------------------------------------------------------------------------
(* Properties of the text merge_diarization returns *)

\* the line that opens the k-th block that yields an entry
NthYielding(k) ==
    CHOOSE i \in YieldingBlocks : Cardinality({q \in YieldingBlocks : q <= i}) = k

\* the label of entry k
LabelFor(k) ==
    IF MatchSet(k) = {}
    THEN << <<"speaker_unknown">>, <<"ws">> >>
    ELSE << <<"speaker", diarization_segments[Least(MatchSet(k))][3]>>, <<"ws">> >>

\* the text of entry k with its label in front
LabeledText(k) == [srt_entries[k].text EXCEPT ![1] = LabelFor(k) \o @]

RECURSIVE UnchangedBlocks(_)
\* from entry k on: the block's first two lines as the transcript has them,
\* the labeled text, an empty line
UnchangedBlocks(k) ==
    IF k > Len(srt_entries) THEN <<>>
    ELSE <<srt_content[NthYielding(k)], srt_content[NthYielding(k) + 1]>>
         \o LabeledText(k) \o << <<>> >> \o UnchangedBlocks(k + 1)

RECURSIVE RebuiltBlocks(_)
\* from entry k on: the index line without the blanks at its ends, the line
\* start_str " --> " end_str, the labeled text, an empty line
RebuiltBlocks(k) ==
    IF k > Len(srt_entries) THEN <<>>
    ELSE << Strip(srt_content[NthYielding(k)]),
            << TimesOf(srt_content[NthYielding(k) + 1])[1], <<"ws">>, <<"arrow">>, <<"ws">>,
               TimesOf(srt_content[NthYielding(k) + 1])[2] >> >>
         \o LabeledText(k) \o << <<>> >> \o RebuiltBlocks(k + 1)

RECURSIVE TextBlocks(_)
\* from entry k on: the labeled text, an empty line
TextBlocks(k) ==
    IF k > Len(srt_entries) THEN <<>>
    ELSE LabeledText(k) \o << <<>> >> \o TextBlocks(k + 1)

StartsWithLabel(line) ==
    Len(line) >= 2 /\ line[1][1] \in {"speaker", "speaker_unknown"} /\ line[2] = <<"ws">>

\* C12 as stated: with remove_timestamps true the text holds the labeled
\* lines only, one per entry in order, and no other line.
C12_OnlyLabeledLines ==
    (pc = "done" /\ remove_timestamps) =>
        /\ Len(merged_text) = Len(srt_entries)
        /\ \A k \in 1..Len(merged_text) : StartsWithLabel(merged_text[k])

\* C12, amended: with remove_timestamps true the text holds, for each entry
\* in order, the entry's text lines with the label in front of the first,
\* followed by one empty line, and nothing else: no index line and no
\* timestamp line.
C12_LabeledTextAndBlank ==
    (pc = "done" /\ remove_timestamps) =>
        /\ Len(srt_entries) = Cardinality(YieldingBlocks)
        /\ merged_text = TextBlocks(1)
        /\ \A k \in 1..Len(merged_entries) : merged_entries[k].timestamp = <<>>

\* a finished call that drops the metadata, with two entries or more, one
\* of them with a text of two lines
C12_Witness ==
    /\ pc = "done" /\ remove_timestamps
    /\ Len(srt_entries) >= 2
    /\ \E k \in 1..Len(srt_entries) : Len(srt_entries[k].text) = 2
    /\ \E k \in 1..Len(srt_entries) : MatchSet(k) # {}

----------------------------------------------------------------------------
(* Properties of the progress reports *)

Checkpoints == <<0, 30, 50, 80, 100>>

\* C13: the callback is called at the fixed checkpoints only, in the order
\* 0, 30, 50, 80, 100, each at most once: 30 only once process_audio has
\* returned, 50 only once the transcript is parsed, 80 only once every
\* entry is labeled, 100 only once the text is assembled; a call that
\* aborts during diarization has reported 0 and nothing else.
C13_ProgressCheckpoints ==
    /\ \E n \in 0..Len(Checkpoints) : progress = SubSeq(Checkpoints, 1, n)
    /\ Len(progress) >= 2 => Returned /\ diarization_segments = final_segments
    /\ Len(progress) >= 3 => Parsed /\ Len(srt_entries) = Cardinality(YieldingBlocks)
    /\ Len(progress) >= 4 => Labeled /\ Len(merged_entries) = Len(srt_entries)
    /\ Len(progress) >= 5 => pc = "done" /\ Len(merged_text) >= 2 * Len(merged_entries)
    /\ pc = "exited" => progress = <<0>>
    /\ pc = "done" => progress = Checkpoints

\* a finished call with several segments and several entries
C13_Witness ==
    /\ pc = "done"
    /\ progress = <<0, 30, 50, 80, 100>>
    /\ Len(final_segments) >= 3
    /\ Len(merged_entries) >= 3

----------------------------------------------------------------------------
(* Further properties of process_audio and merge_segments *)

\* C17: two final segments of different categories never carry the same
\* speaker_id, equal cluster ids included.
C17_NoCrossCategorySpeaker ==
    Returned =>
        \A i, j \in 1..Len(final_segments) :
            final_segments[i][4] # final_segments[j][4]
                => final_segments[i][3] # final_segments[j][3]

\* a run with segments of the unknown category and of another one that
\* carry the same cluster id
C17_Witness ==
    /\ pc = "done"
    /\ Len(final_segments) = Len(group_clustered_segments)
    /\ \E i, j \in 1..Len(final_segments) :
           /\ final_segments[i][4] = "unknown" /\ final_segments[j][4] # "unknown"
           /\ KeyOf(group_clustered_segments[i])[2] = KeyOf(group_clustered_segments[j])[2]

\* input i does not continue the output interval that input i - 1 is part
\* of: the category differs, or its start is more than th after the end
\* that interval has by then, which is the end of input i - 1
OpensInterval(xs, i, th) ==
    \/ i = 1
    \/ xs[i][1] # xs[i - 1][1]
    \/ xs[i][2] - xs[i - 1][3] > th

\* the last input of the output interval that input a opens
LastOfInterval(xs, a, th) ==
    Least({b \in a..Len(xs) : b = Len(xs) \/ OpensInterval(xs, b + 1, th)})

\* C19: merge_segments is the left fold of the specification: an input is
\* absorbed into the current interval exactly when it has its category and
\* starts at most gap_threshold after its extended end, a gap equal to the
\* threshold included, and it opens a new interval otherwise; an output
\* interval has the category and start of the input that opened it and the
\* end of the last input it absorbed.
C19_MergeIsLeftFold ==
    (pc # "merge" /\ merged1.exc = "none") =>
        LET xs == raw.segs
            out == merged1.val
            th == gap_threshold
            opens == {i \in 1..Len(xs) : OpensInterval(xs, i, th)}
        IN  /\ Len(out) = Cardinality(opens)
            /\ \A a \in opens :
                   LET k == Cardinality({q \in opens : q <= a})
                   IN  out[k] = <<xs[a][1], xs[a][2], xs[LastOfInterval(xs, a, th)][3]>>
            /\ \A i \in 2..Len(xs) :
                   xs[i][1] # xs[i - 1][1] => \E k \in 1..Len(out) : out[k][2] = xs[i][2]

\* a chain of three inputs of one category collapsed into one interval, a
\* gap being exactly the threshold
C19_Witness ==
    /\ pc = "merged" /\ merged1.exc = "none"
    /\ Len(raw.segs) = 3 /\ Len(merged1.val) = 1
    /\ gap_threshold = GapThreshold
    /\ raw.segs[2][2] - raw.segs[1][3] = gap_threshold

----------------------------------------------------------------------------
(* Properties of get_embeddings *)

\* C14: every vector get_embeddings returns has L2 norm 1, on every path,
\* the one where the statistics have norm zero and epsilon stands in for
\* the norm included.
C14_UnitNorm ==
    pc = "embedded" => SumSq(embeddings[1].vec) = embeddings[1].den2

\* C15: every vector get_embeddings returns has n_mfcc * 3 * 2 components,
\* 240 by default, whichever path produced it.
C15_FixedDimension ==
    pc = "embedded" =>
        /\ embeddings[1].exc = "none"
        /\ Dim(embeddings[1].vec) = n_mfcc * 3 * 2
        /\ n_mfcc = 40 => Dim(embeddings[1].vec) = 240

\* the padded static vector with the default n_mfcc
C15_Witness ==
    /\ pc = "embedded"
    /\ embeddings[1].path = "static"
    /\ n_mfcc = 40
    /\ audio[1].stats[1] # 0

\* the vector of `dim` components epsilon, over its norm
IsPlaceholder(e, dim) ==
    /\ e.vec = <<[n |-> dim, v |-> 1]>>
    /\ e.den2 = dim

\* C16: get_embeddings never lets a failure out: a segment shorter than
\* 0.05 s gets the placeholder and no audio is decoded for it, one with
\* fewer than 2048 samples gets the placeholder, and so does one whose
\* decoding raises; process_audio goes on and keeps one embedding for
\* every valid segment.
C16_FailuresAbsorbed ==
    /\ failure.context.where # "get_embeddings"
    /\ pc \notin {"md_start", "pa_segment", "pa_embed"} =>
           /\ Len(valid_segments) = Len(raw.segs)
           /\ Len(embeddings) = Len(valid_segments)
           /\ \A i \in 1..Len(embeddings) :
                  LET short == valid_segments[i][3] - valid_segments[i][2] < 50
                      e == embeddings[i]
                  IN  /\ e.exc = "none"
                      /\ short => IsPlaceholder(e, 240) /\ ~e.decoded
                      /\ ~short /\ (\/ audio[i].load = "raises"
                                    \/ audio[i].samples < 2048
                                    \/ audio[i].mfcc = "raises")
                             => IsPlaceholder(e, 240)

\* a finished call whose first segment is too short, whose second could not
\* be decoded and whose third gave features
C16_Witness ==
    /\ pc = "done"
    /\ Len(embeddings) = 3
    /\ embeddings[1].path = "short"
    /\ embeddings[2].path = "except" /\ audio[2].load = "raises"
    /\ embeddings[3].path = "full"
    /\ Len(final_segments) = 3

----------------------------------------------------------------------------
(* The order of the steps of process_audio *)

Rank(call) ==
    CASE call[1] = "get_embeddings" -> 1
      [] call[1] = "fit_predict" -> 2
      [] call[1] = "relabel" -> 3

CallsOf(name) == {p \in 1..Len(calls) : calls[p][1] = name}

\* C20: every embedding is computed before the first clustering call, and
\* every clustering call is made before the relabeling starts: when a
\* group is clustered the embedding of each of its segments is there.
C20_EmbedClusterRelabel ==
    /\ \A p, q \in 1..Len(calls) : p < q => Rank(calls[p]) <= Rank(calls[q])
    /\ pc \in {"pa_group", "pa_cluster"} \/ Returned =>
           /\ Cardinality(CallsOf("get_embeddings")) = Len(valid_segments)
           /\ Len(embeddings) = Len(valid_segments)
    /\ CallsOf("fit_predict") # {} =>
           /\ Cardinality(CallsOf("get_embeddings")) = Len(valid_segments)
           /\ \A k \in 1..Len(groups) :
                  Len(groups[k].embeddings) = Len(groups[k].segments)
           /\ \A i \in 1..Len(valid_segments) :
                  \E k \in 1..Len(groups) :
                      \E j \in 1..Len(groups[k].segments) :
                          /\ groups[k].segments[j] = valid_segments[i]
                          /\ groups[k].embeddings[j] = embeddings[i]
    /\ CallsOf("relabel") # {} =>
           /\ Cardinality(CallsOf("relabel")) = 1
           /\ Cardinality(CallsOf("fit_predict")) = Len(groups)
           /\ \A k \in 1..Len(groups) :
                  \E p \in CallsOf("fit_predict") : calls[p][2] = groups[k].gender

\* a finished call with two groups clustered one after the other
C20_Witness ==
    /\ pc = "done"
    /\ Len(groups) = 2
    /\ Len(calls) = Len(valid_segments) + 3
    /\ Len(valid_segments) = 4

----------------------------------------------------------------------------
(* Calls with labels of every spelling: the inputs *)

UpperChar(c) ==
    CASE c = "m" -> "M" [] c = "a" -> "A" [] c = "l" -> "L" [] c = "e" -> "E"
      [] c = "f" -> "F" [] OTHER -> c

\* the spellings of a word in lower and upper case letters
CaseVariants(word) ==
    {[i \in 1..Len(word) |-> IF i \in S THEN UpperChar(word[i]) ELSE word[i]] :
        S \in SUBSET (1..Len(word))}

music == <<"m", "u", "s", "i", "c">>
noise == <<"n", "o", "i", "s", "e">>

\* labels that are no spelling of "male" or "female": the empty label, the
\* segmenter's other labels, and words that miss or displace a letter
OtherLabels ==
    {<<>>, noEnergy, music, noise, <<"m">>, <<"M", "a", "l">>, <<"f", "e", "m", "a", "l">>,
     <<"e", "m", "a", "l", "e">>, <<"x", "m", "a", "l", "e">>, <<" ", "m", "a", "l", "e">>,
     <<"f", "m", "a", "l", "e">>, <<"m", "a", "e", "l">>}

LabelTails == {<<>>, <<"2">>, <<"f", "e", "m", "a", "l", "e">>}

SpelledLabels ==
    {head \o tail : head \in CaseVariants(male) \cup CaseVariants(female) \cup OtherLabels,
                    tail \in LabelTails}

\* the segmenter fails, or returns two segments of one label a second apart
InitLabels ==
    InitCall({SegmenterFails} \cup
             {Returns(<< <<l, 0, 500>>, <<l, 1500, 2000>> >>) : l \in SpelledLabels},
             {GridTranscript(3)}, {FALSE})

SpecLabels == InitLabels /\ [][Next]_vars

----------------------------------------------------------------------------
(* Properties of get_gender *)

\* the label begins with the word, in whatever case
BeginsNoCase(label, word) ==
    /\ Len(label) >= Len(word)
    /\ \A i \in 1..Len(word) : label[i] \in {word[i], UpperChar(word[i])}

\* the category is right for the label: "male" exactly for the labels that
\* begin with "male", "female" exactly for those that begin with "female",
\* "unknown" exactly for the others, and one of the three only
RightCategory(category, label) ==
    /\ category \in {"male", "female", "unknown"}
    /\ category = "male" <=> BeginsNoCase(label, male)
    /\ category = "female" <=> BeginsNoCase(label, female)
    /\ category = "unknown" <=> ~BeginsNoCase(label, male) /\ ~BeginsNoCase(label, female)
    /\ ~(BeginsNoCase(label, male) /\ BeginsNoCase(label, female))

\* C21: get_gender is a total function of the original label: "male" exactly
\* when the lower-cased label starts with "male", "female" exactly when it
\* starts with "female", "unknown" for every other label (the empty one and
\* the non-speech ones included), the three being mutually exclusive; and the
\* category stored in a final segment is the one of the segment's original
\* label.
C21_GenderFromLabel ==
    /\ \A i \in 1..Len(genders) : RightCategory(genders[i], valid_segments[i][1])
    /\ Returned =>
           \A i \in 1..Len(final_segments) :
               RightCategory(final_segments[i][4], final_segments[i][5])

\* a completed run whose label is "male" or "female" in mixed case, one whose
\* label is empty, and one whose label only holds "male" further on
C21_Witness ==
    /\ pc = "done"
    /\ Len(final_segments) = 2
    /\ LET label == final_segments[1][5]
       IN  \/ label = <<"M", "a", "L", "e", "2">> /\ final_segments[1][4] = "male"
           \/ label = <<"F", "E", "m", "a", "l", "e">> /\ final_segments[1][4] = "female"
           \/ label = <<>> /\ final_segments[1][4] = "unknown"
           \/ label = <<"x", "m", "a", "l", "e">> /\ final_segments[1][4] = "unknown"

----------------------------------------------------------------------------
(* merge_segments on tuples with extra fields: the inputs *)

MaxRunLen == 3

\* what a tuple holds after its end: nothing, one field, or two
Extras == {<<>>, <<"a">>, <<"b", "c">>}
RunStarts == {0, 500, 1000}

\* intervals of a quarter of a second with extra fields: two that start
\* half a second apart are a quarter of a second from each other
ExtraTuples ==
    {<<l, s, s + 250>> \o extra : l \in MergeLabels, s \in RunStarts, extra \in Extras}

InitMergeExtra ==
    /\ pc = "merge"
    /\ raw \in {Returns(xs) : xs \in SeqsUpTo(ExtraTuples, MaxRunLen)}
    /\ gap_threshold = GapThreshold
    /\ srt_content = <<>>
    /\ remove_timestamps = FALSE
    /\ audio = <<>> /\ n_mfcc = N_MFCC
    /\ NoMerge /\ InitLocals /\ NoWindow

SpecMergeExtra == InitMergeExtra /\ [][NextMerge]_vars

----------------------------------------------------------------------------
(* The fields merge_segments keeps *)

\* C22: when merge_segments coalesces a run of intervals, the result has the
\* category, the start and every extra field (positions 3 and beyond) of the
\* first interval of the run and the end of the last one; the extra fields
\* of the absorbed intervals are discarded, and an interval that is not
\* coalesced is left unchanged.
C22_FirstFieldsLastEnd ==
    (pc # "merge" /\ merged1.exc = "none") =>
        LET xs == raw.segs
            out == merged1.val
            th == gap_threshold
            opens == {i \in 1..Len(xs) : OpensInterval(xs, i, th)}
        IN  /\ Len(out) = Cardinality(opens)
            /\ \A a \in opens :
                   LET k == Cardinality({q \in opens : q <= a})
                       b == LastOfInterval(xs, a, th)
                       first == xs[a]
                   IN  /\ Len(out[k]) = Len(first)
                       /\ out[k][1] = first[1] /\ out[k][2] = first[2]
                       /\ out[k][3] = xs[b][3]
                       /\ \A p \in 4..Len(first) : out[k][p] = first[p]
                       /\ b = a => out[k] = first

\* a run of two intervals whose extra fields differ, coalesced, beside an
\* interval left alone
C22_Witness ==
    /\ pc = "merged" /\ merged1.exc = "none"
    /\ Len(raw.segs) = 3 /\ Len(merged1.val) = 2
    /\ raw.segs[1][1] = raw.segs[2][1]
    /\ Len(raw.segs[1]) = 5 /\ Len(raw.segs[2]) = 4
    /\ merged1.val[1][3] = raw.segs[2][3]
    /\ merged1.val[1][3] # raw.segs[1][3]
    /\ merged1.val[2] = raw.segs[3]

----------------------------------------------------------------------------
(* Properties of the list process_audio returns *)

\* the speaker_ids of the returned segments
SpeakerIds == {final_segments[i][3] : i \in 1..Len(final_segments)}

\* the composite keys (category, cluster_id) of the clustered segments
CompositeKeys == {KeyOf(pooled[i]) : i \in 1..Len(pooled)}

\* C23: after a completed run of process_audio the speaker_ids of the
\* returned segments are exactly 1..K, K being the number of distinct
\* composite keys (category, cluster_id) among the clustered segments: the
\* ids are positive and contiguous.
C23_IdsContiguous ==
    Returned => SpeakerIds = 1..Cardinality(CompositeKeys)

\* a run of four segments and two keys, the first key being met again after
\* the second
C23_Witness ==
    /\ pc = "done"
    /\ Len(final_segments) = 4
    /\ Cardinality(CompositeKeys) = 2
    /\ final_segments[1][3] = 1 /\ final_segments[2][3] = 2 /\ final_segments[3][3] = 1

\* the positions of the merged segments that have three fields at least and
\* bounds that are numbers
KeptPositions ==
    {i \in 1..Len(segments) :
        Len(segments[i]) >= 3 /\ segments[i][2] # BadBound /\ segments[i][3] # BadBound}

\* C24: a completed run of process_audio returns exactly one final segment
\* for each merged segment that has at least three fields and numeric bounds,
\* none dropped and none duplicated, each keeping the start, the end and the
\* original label of its merged segment (there are as many final segments
\* with given bounds and label as merged segments with them); and the
\* returned list is sorted by start, ascending.
C24_OneFinalPerMerged ==
    Returned =>
        /\ Len(final_segments) = Cardinality(KeptPositions)
        /\ \A i \in KeptPositions :
               LET same == {j \in KeptPositions :
                               /\ segments[j][1] = segments[i][1]
                               /\ segments[j][2] = segments[i][2]
                               /\ segments[j][3] = segments[i][3]}
                   finals == {p \in 1..Len(final_segments) :
                                 /\ final_segments[p][1] = segments[i][2]
                                 /\ final_segments[p][2] = segments[i][3]
                                 /\ final_segments[p][5] = segments[i][1]}
               IN  Cardinality(finals) = Cardinality(same)
        /\ \A i \in 1..(Len(final_segments) - 1) :
               final_segments[i][1] <= final_segments[i + 1][1]

\* a completed run in which a tuple is left out, and one in which the groups
\* interleave in time, so that the pooled list is not in the order of time
C24_Witness ==
    /\ pc = "done"
    /\ \/ /\ Len(segments) = 3 /\ Len(final_segments) = 2
          /\ segments[1][2] = BadBound
       \/ /\ Len(final_segments) = 4
          /\ \E i \in 1..3 : pooled[i][2] > pooled[i + 1][2]

----------------------------------------------------------------------------
(* Properties of the alignment under the segmenter's contract *)

\* the segmenter returned well-formed tuples, sorted and non-overlapping
ContractKept ==
    /\ raw.exc = "none"
    /\ \A i \in 1..Len(raw.segs) :
           Len(raw.segs[i]) >= 3 /\ raw.segs[i][2] # BadBound /\ raw.segs[i][3] # BadBound
    /\ Contract(raw.segs)

\* the half-open intervals [a[1], a[2]) and [b[1], b[2]) share a point
Overlap(a, b) == a[1] < a[2] /\ b[1] < b[2] /\ a[1] < b[2] /\ b[1] < a[2]

\* the segments with the one at position i moved to the front.  The scan
\* stops at the first segment that passes the test, so what any order of
\* the segments yields is what one of these orders yields
MovedToFront(segs, i) ==
    <<segs[i]>> \o SubSeq(segs, 1, i - 1) \o SubSeq(segs, i + 1, Len(segs))

\* C25: when the segmenter's output is sorted and non-overlapping, the final
\* segments process_audio returns are pairwise disjoint as half-open
\* intervals [start, end); so at most one segment passes the alignment test
\* for a transcript entry, and the label merge_diarization computes is the
\* same for every order of the segments.
C25_DisjointSegments ==
    ContractKept =>
        /\ Returned =>
               \A i, j \in 1..Len(final_segments) :
                   i # j => ~Overlap(final_segments[i], final_segments[j])
        /\ Labeled =>
               \A k \in 1..Len(srt_entries) :
                   /\ Cardinality(MatchSet(k)) <= 1
                   /\ \A i \in 1..Len(diarization_segments) :
                          MergedEntry(MovedToFront(diarization_segments, i), srt_entries[k],
                                      remove_timestamps) = merged_entries[k]

\* four segments, and an entry that starts where a segment ends and the
\* segment of another speaker starts
C25_Witness ==
    /\ pc = "done" /\ ContractKept
    /\ Len(final_segments) = 4
    /\ \E k \in 1..Len(srt_entries) :
           \E i, j \in 1..Len(final_segments) :
               /\ final_segments[i][2] = srt_entries[k].start
               /\ final_segments[j][1] = srt_entries[k].start
               /\ final_segments[i][3] # final_segments[j][3]
               /\ MatchSet(k) = {j}

----------------------------------------------------------------------------
(* Properties of the labels given to non-speech intervals *)

\* the kept merged segments that hold the time t
HoldersOfTime(t) ==
    {i \in KeptPositions : segments[i][2] <= t /\ t < segments[i][3]}

\* the final segment made of merged segment i carries a positive speaker_id,
\* in the "unknown" category when its label is neither male nor female
Numbered(i) ==
    \E p \in 1..Len(final_segments) :
        /\ final_segments[p][1] = segments[i][2]
        /\ final_segments[p][2] = segments[i][3]
        /\ final_segments[p][5] = segments[i][1]
        /\ final_segments[p][3] >= 1
        /\ segments[i][1] \notin {male, female} => final_segments[p][4] = "unknown"

\* C26: process_audio gives a positive speaker_id to every valid merged
\* interval whatever its category, the intervals whose label is neither male
\* nor female included, which are clustered in the "unknown" group; so an
\* entry is labeled Speaker Unknown only if its start lies outside every
\* merged interval, and an entry that starts inside a non-speech interval is
\* labeled with a numbered speaker.
C26_EveryIntervalNumbered ==
    Ended =>
        /\ \A i \in KeptPositions : Numbered(i)
        /\ \A k \in 1..Len(merged_entries) :
               LET first == merged_entries[k].text[1][1]
                   holders == HoldersOfTime(srt_entries[k].start)
               IN  /\ first = <<"speaker_unknown">> => holders = {}
                   /\ holders # {} => first[1] = "speaker" /\ first[2] >= 1

----------------------------------------------------------------------------
(* The returned text parsed again: the step and the inputs *)

\* parse_srt called on the text merge_diarization returned
Reparse ==
    /\ pc = "done"
    /\ reparsed' = parse_srt(merged_text)
    /\ pc' = "reparsed"
    /\ UNCHANGED <<inputs, swVars, mergeVars, paVars, endVars,
                   progress, diarization_segments, srt_entries, merged_entries, merged_text>>

NextRoundTrip == Next \/ Reparse

\* blocks with carriage returns, k being the block's position:
\*   "crlf"    index, times, one line of text, every line ending in "\r\n"
\*   "crtext"  a "\r" between two words of the text
\*   "crcr"    two "\r" between two words of the text
\*   "crend"   index, times and a blank, with "\r" between them, on one line
\*   "crhead"  "\r", the times, "\r" and a word on one line
CrKinds == {"crlf", "crtext", "crcr", "crend", "crhead"}
CrBlockOf(kind, k) ==
    CASE kind = "crlf"   -> << <<<<"word", k>>, Cr>>, TsLine(500 * k, 500 * k + 250) \o <<Cr>>,
                               <<<<"word", 100 + k>>, Cr>> >>
      [] kind = "crtext" -> <<Word(k), TsLine(500 * k, 500 * k + 250),
                              <<<<"word", 100 + k>>, Cr, <<"word", 200 + k>>>> >>
      [] kind = "crcr"   -> <<Word(k), TsLine(500 * k, 500 * k + 250),
                              <<<<"word", 100 + k>>, Cr, Cr, <<"word", 200 + k>>>> >>
      [] kind = "crend"  -> << Word(k) \o <<Cr>> \o TsLine(500 * k, 500 * k + 250) \o <<Cr, Ws>> >>
      [] kind = "crhead" -> << <<Cr>> \o TsLine(500 * k, 500 * k + 250) \o <<Cr, <<"word", 100 + k>>>> >>
      [] OTHER -> BlockOf(kind, k)

\* the transcripts of at most MaxBlocks blocks, with and without "\r"
CrTranscripts ==
    {JoinBlocks([k \in 1..Len(kinds) |-> CrBlockOf(kinds[k], k)]) :
        kinds \in SeqsUpTo(CrKinds \cup {"good", "long", "tight", "short"}, MaxBlocks)}

InitRoundTrip ==
    InitCall({Returns(<< <<male, 0, 1000>>, <<male, 2000, 3000>> >>)}, CrTranscripts, {FALSE})

SpecRoundTrip == InitRoundTrip /\ [][NextRoundTrip]_vars

----------------------------------------------------------------------------
(* The round trip of the text with metadata *)

\* the label of entry k: the speaker of the first segment that holds its
\* start, Speaker Unknown if there is none
AssignedLabel(k) ==
    IF MatchSet(k) = {} THEN << <<"speaker_unknown">>, <<"ws">> >>
    ELSE << <<"speaker", diarization_segments[Least(MatchSet(k))][3]>>, <<"ws">> >>

\* the returned text has been parsed again
Reparsed == pc = "reparsed"

\* C27: parse_srt applied to the text merge_diarization returns with
\* remove_timestamps false yields as many entries as parse_srt of the input,
\* in the same order, each with the same index, start_str, end_str, start
\* and end, and with the assigned speaker label followed by the original
\* text as its text.
C27_RoundTrip ==
    (Reparsed /\ ~remove_timestamps) =>
        /\ Len(reparsed) = Len(srt_entries)
        /\ \A k \in 1..Len(srt_entries) :
               k <= Len(reparsed) =>
                   /\ reparsed[k].index = srt_entries[k].index
                   /\ reparsed[k].start_str = srt_entries[k].start_str
                   /\ reparsed[k].end_str = srt_entries[k].end_str
                   /\ reparsed[k].start = srt_entries[k].start
                   /\ reparsed[k].end = srt_entries[k].end
                   /\ reparsed[k].text =
                          [srt_entries[k].text EXCEPT ![1] = AssignedLabel(k) \o @]

----------------------------------------------------------------------------
(* transcribe_audio, SoftWhisper.py:79-127: the bounds of the trimmed audio. *)
(* Times are in milliseconds.                                               *)

MaxSec == 3

\* an option string that is empty, or that the parsing of lines 87-97
\* gives up on
Unparsed == -1

\* lines 86-110: the option parsed, or the default
ParsedOr(time, default) == IF time = Unparsed THEN default ELSE time

\* ValidBounds with > where line 116 has >=
ValidBoundsStartAtEnd(length, start, end) ==
    LET s1 == IF start < 0 THEN 0 ELSE start
        s2 == IF s1 > length THEN 0 ELSE s1
        e1 == IF end > length THEN length ELSE end
        e2 == IF e1 <= s2 THEN length ELSE e1
    IN  [start_sec |-> s2, end_sec |-> e2]

\* lines 113-120: the four tests, in their order
ValidBounds(length, start, end) ==
    LET s1 == IF start < 0 THEN 0 ELSE start
        s2 == IF s1 >= length THEN 0 ELSE s1
        e1 == IF end > length THEN length ELSE end
        e2 == IF e1 <= s2 THEN length ELSE e1
    IN  [start_sec |-> s2, end_sec |-> e2]

\* lines 79-123
TA_Bounds ==
    /\ pc = "ta_bounds"
    /\ LET valid == ValidBounds(audio_length, ParsedOr(start_time, 0),
                                ParsedOr(end_time, audio_length))
       IN  /\ start_sec' = valid.start_sec
           /\ end_sec' = valid.end_sec
           /\ target_duration' = valid.end_sec - valid.start_sec
    /\ pc' = "ta_trim"
    /\ UNCHANGED <<inputs, mergeVars, paVars, endVars, mdVars, guiVars,
                   start_time, end_time, audio_length>>

NextBounds == TA_Bounds

\* no call of merge_diarization or of merge_segments is running
PipelineIdle ==
    /\ raw = Returns(<<>>)
    /\ gap_threshold = GapThreshold
    /\ srt_content = <<>>
    /\ remove_timestamps = FALSE
    /\ audio = <<>> /\ n_mfcc = N_MFCC
    /\ NoMerge /\ InitLocals

\* whole seconds, as "HH:MM:SS" parses to, a sign in a field included
ParsedTimes == {1000 * k : k \in (-1)..(MaxSec + 1)}

\* the positive lengths: one millisecond and the half seconds up to MaxSec
AudioLengths == {1} \cup {500 * k : k \in 1..(2 * MaxSec)}

InitBounds ==
    /\ pc = "ta_bounds"
    /\ PipelineIdle /\ WindowBuilt
    /\ audio_length \in AudioLengths
    /\ start_time \in ParsedTimes \cup {Unparsed}
    /\ end_time \in ParsedTimes \cup {Unparsed}
    /\ start_sec = 0 /\ end_sec = 0 /\ target_duration = 0

SpecBounds == InitBounds /\ [][NextBounds]_vars

----------------------------------------------------------------------------
(* Properties of the bounds of transcribe_audio *)

\* C30: for an audio of positive length L and any parsed start and end
\* (negative, beyond L, equal, reversed) the validated bounds satisfy
\* 0 <= start_sec < end_sec <= L, so the trimmed duration end_sec - start_sec
\* is strictly positive.
C30_BoundsValid ==
    (pc = "ta_trim" /\ audio_length > 0) =>
        /\ 0 <= start_sec
        /\ start_sec < end_sec
        /\ end_sec <= audio_length
        /\ target_duration = end_sec - start_sec
        /\ target_duration > 0

\* the bounds validated for a start equal to the length of the audio and an
\* end before it
C30_Witness ==
    /\ pc = "ta_trim"
    /\ start_time = audio_length
    /\ end_time # Unparsed /\ end_time < start_time /\ end_time > 0
    /\ start_sec = 0 /\ end_sec = end_time

----------------------------------------------------------------------------
(* The SoftWhisper window, SoftWhisper.py:750-923: the Start and Stop       *)
(* buttons, the calls root.after has pending, and the transcribe_file       *)
(* threads.  A thread is [at, process, cancelled, result_cancelled] and two *)
(* history fields, stop_requested and published; `at` is where it stands:   *)
(*   "check" line 840, "popen" line 167, "loop" line 198, "after_loop" line *)
(*   233, "returned" line 850, "store" line 851, "finally" line 906,        *)
(*   "ended"                                                                *)
(* and process is the Whisper.cpp child: "none", "running", "exited",       *)
(* "killed".                                                                *)

MaxRuns == 2

NewWorker ==
    [at |-> "check", process |-> "none", cancelled |-> FALSE, result_cancelled |-> FALSE,
     stop_requested |-> FALSE, published |-> FALSE]

Running(w) == workers[w].at # "ended"

\* lines 750-772, the command of the Start button: Tk runs it only while the
\* button is enabled
start_transcription ==
    /\ pc = "mainloop"
    /\ start_button = "normal"
    /\ Len(workers) < MaxRuns
    /\ IF ~file_path \/ ~model_loaded
       THEN UNCHANGED guiVars
       ELSE /\ start_button' = "disabled"
            /\ stop_button' = "normal"
            /\ export_button' = "disabled"
            /\ transcription_box' = 0
            /\ current_text' = 0
            /\ transcription_stop_event' = FALSE
            /\ workers' = Append(workers, NewWorker)
            /\ UNCHANGED <<file_path, model_loaded, after_calls>>
    /\ UNCHANGED <<pc, inputs, mergeVars, paVars, endVars, mdVars, boundVars>>

\* lines 774-779, the command of the Stop button.  The request is for the
\* run started last, if it has not got to line 906 yet
stop_processing ==
    /\ pc = "mainloop"
    /\ stop_button = "normal"
    /\ transcription_stop_event' = TRUE
    /\ stop_button' = "disabled"
    /\ after_calls' = after_calls + 1
    /\ workers' = [w \in 1..Len(workers) |->
                      IF w = Len(workers) /\ workers[w].at \notin {"finally", "ended"}
                      THEN [workers[w] EXCEPT !.stop_requested = TRUE]
                      ELSE workers[w]]
    /\ UNCHANGED <<pc, inputs, mergeVars, paVars, endVars, mdVars, boundVars,
                   file_path, model_loaded, start_button, export_button, current_text,
                   transcription_box>>

\* lines 916-923, called by the main loop for a call root.after scheduled
enable_buttons ==
    /\ pc = "mainloop"
    /\ after_calls > 0
    /\ after_calls' = after_calls - 1
    /\ start_button' = IF file_path /\ model_loaded THEN "normal" ELSE start_button
    /\ stop_button' = "disabled"
    /\ UNCHANGED <<pc, inputs, mergeVars, paVars, endVars, mdVars, boundVars,
                   file_path, model_loaded, export_button, transcription_stop_event,
                   current_text, transcription_box, workers>>

\* a step of thread w that changes nothing but the thread
WorkerStep(w, next) ==
    /\ workers' = [workers EXCEPT ![w] = next]
    /\ UNCHANGED <<pc, inputs, mergeVars, paVars, endVars, mdVars, boundVars,
                   file_path, model_loaded, start_button, stop_button, export_button,
                   transcription_stop_event, current_text, transcription_box, after_calls>>

\* line 840, and line 895 if the event is set
TF_Check(w) ==
    /\ workers[w].at = "check"
    /\ WorkerStep(w, [workers[w] EXCEPT
                         !.at = IF transcription_stop_event THEN "finally" ELSE "popen"])

\* lines 841-175: transcribe_audio up to the start of the child
TA_Popen(w) ==
    /\ workers[w].at = "popen"
    /\ WorkerStep(w, [workers[w] EXCEPT !.at = "loop", !.process = "running"])

\* the same lines raising (no audio, no executable), and lines 896-904
TA_PopenRaises(w) ==
    /\ workers[w].at = "popen"
    /\ WorkerStep(w, [workers[w] EXCEPT !.at = "finally"])

\* the child ends by itself
WhisperExits(w) ==
    /\ workers[w].process = "running"
    /\ WorkerStep(w, [workers[w] EXCEPT !.process = "exited"])

\* lines 198-212, a turn of the loop that leaves it: the child has ended, or
\* the event is set and the child is killed
TA_Poll(w) ==
    /\ workers[w].at = "loop"
    /\ workers[w].process # "running" \/ transcription_stop_event
    /\ WorkerStep(w, IF workers[w].process # "running"
                     THEN [workers[w] EXCEPT !.at = "after_loop"]
                     ELSE [workers[w] EXCEPT !.at = "after_loop", !.process = "killed",
                                             !.cancelled = TRUE])

\* lines 233-291: the child is ended if it still runs, and the result is
\* the cancelled one if the loop was left for the event or the event is set
TA_Return(w) ==
    /\ workers[w].at = "after_loop"
    /\ WorkerStep(w, [workers[w] EXCEPT
                         !.at = "returned",
                         !.process = IF @ = "running" THEN "killed" ELSE @,
                         !.result_cancelled = workers[w].cancelled \/ transcription_stop_event])

\* line 850, and lines 876-879
TF_Test(w) ==
    /\ workers[w].at = "returned"
    /\ WorkerStep(w, [workers[w] EXCEPT
                         !.at = IF ~transcription_stop_event /\ ~workers[w].result_cancelled
                                THEN "store" ELSE "finally"])

\* lines 851-875: the text is stored and shown, and Export is enabled if it
\* is not empty
TF_Store(w) ==
    /\ workers[w].at = "store"
    /\ current_text' = w
    /\ transcription_box' = w
    /\ \E empty \in BOOLEAN :
           export_button' = IF empty THEN export_button ELSE "normal"
    /\ workers' = [workers EXCEPT ![w].at = "finally", ![w].published = TRUE]
    /\ UNCHANGED <<pc, inputs, mergeVars, paVars, endVars, mdVars, boundVars,
                   file_path, model_loaded, start_button, stop_button,
                   transcription_stop_event, after_calls>>

\* lines 905-906, and the end of the thread
TF_Finally(w) ==
    /\ workers[w].at = "finally"
    /\ after_calls' = after_calls + 1
    /\ workers' = [workers EXCEPT ![w].at = "ended"]
    /\ UNCHANGED <<pc, inputs, mergeVars, paVars, endVars, mdVars, boundVars,
                   file_path, model_loaded, start_button, stop_button, export_button,
                   transcription_stop_event, current_text, transcription_box>>

NextWindow ==
    \/ start_transcription
    \/ stop_processing
    \/ enable_buttons
    \/ \E w \in 1..Len(workers) : TF_Check(w)
    \/ \E w \in 1..Len(workers) : TA_Popen(w)
    \/ \E w \in 1..Len(workers) : TA_PopenRaises(w)
    \/ \E w \in 1..Len(workers) : WhisperExits(w)
    \/ \E w \in 1..Len(workers) : TA_Poll(w)
    \/ \E w \in 1..Len(workers) : TA_Return(w)
    \/ \E w \in 1..Len(workers) : TF_Test(w)
    \/ \E w \in 1..Len(workers) : TF_Store(w)
    \/ \E w \in 1..Len(workers) : TF_Finally(w)

\* the window with a file chosen and the model checked: Start is enabled
InitWindow ==
    /\ pc = "mainloop"
    /\ PipelineIdle /\ NoBounds
    /\ file_path = TRUE /\ model_loaded = TRUE
    /\ start_button = "normal" /\ stop_button = "disabled" /\ export_button = "disabled"
    /\ transcription_stop_event = FALSE
    /\ current_text = 0 /\ transcription_box = 0
    /\ workers = <<>> /\ after_calls = 0

SpecWindow == InitWindow /\ [][NextWindow]_vars

----------------------------------------------------------------------------
(* Properties of the transcription threads *)

\* C28: at most one transcription thread, and so at most one Whisper.cpp
\* child, is alive at any time: whatever Start, Stop and thread-completion
\* events came before, Start cannot be triggered while a thread started
\* before is still running.
C28_OneWorker ==
    /\ Cardinality({w \in 1..Len(workers) : Running(w)}) <= 1
    /\ Cardinality({w \in 1..Len(workers) : workers[w].process = "running"}) <= 1
    /\ start_button = "normal" => \A w \in 1..Len(workers) : ~Running(w)

\* C29: a run for which Stop was requested never publishes its result,
\* under every interleaving of its thread with later user actions, a new
\* Start (which clears the stop event) included: it does not store its text
\* in current_text, does not display it and does not enable Export.
C29_StoppedRunSilent ==
    \A w \in 1..Len(workers) : workers[w].stop_requested => ~workers[w].published

====
